---- MODULE Spec2Model ----
(***************************************************************************)
(* A model of the chess3 engine: bitboard move generation, king-in-check   *)
(* filtering with the potential-checkers shortlist, turn application and   *)
(* the iterative-deepening minimax driver.                                 *)
(*                                                                         *)
(* Representation.  A u64 bitboard is the set of its set bit indices, a    *)
(* subset of 0..63; a u8 byte is a subset of 0..7.  Bitwise and / or / xor *)
(* are intersection / union / symmetric difference, a shift moves every    *)
(* index and drops the ones that leave the word.  Option<T> is a set with  *)
(* at most one element: None is {} and Some(x) is {x}.  Rust arrays are    *)
(* 0-based, TLA+ sequences 1-based: array element i is sequence element    *)
(* i + 1.                                                                  *)
(***************************************************************************)
EXTENDS Integers, Sequences, FiniteSets, TLC

None == {}
Some(x) == {x}
Unwrap(o) == CHOOSE x \in o : TRUE

Squares == 0 .. 63

SetMin(S) == CHOOSE x \in S : \A y \in S : x <= y
SetMax(S) == CHOOSE x \in S : \A y \in S : x >= y
Xor(a, b) == (a \ b) \cup (b \ a)
Abs(n) == IF n < 0 THEN -n ELSE n

(***************************************************************************)
(* bitboard_manipulation.rs: bit primitives                                *)
(***************************************************************************)

\* u8::trailing_zeros, u64::trailing_zeros, u64::leading_zeros
trailing_zeros8(byte) == IF byte = {} THEN 8 ELSE SetMin(byte)
trailing_zeros64(num) == IF num = {} THEN 64 ELSE SetMin(num)
leading_zeros64(num) == IF num = {} THEN 64 ELSE 63 - SetMax(num)

bit_on(num, bit) == bit \in num

isolate_byte(num, isolate) ==
    {b - isolate * 8 : b \in {x \in num : x \in (isolate * 8) .. (isolate * 8 + 7)}}

\* (byte as u64) << (row * 8)
ByteToRow(byte, row) == {row * 8 + b : b \in byte}

\* one u8 lane of shift_bytes: byte << |shift| or byte >> shift, kept to 8 bits
ShiftLane(byte, shift) ==
    IF shift < 0
    THEN {b + Abs(shift) : b \in byte} \cap (0 .. 7)
    ELSE {b - shift : b \in byte} \cap (0 .. 7)

\* variant: the shift is applied to the whole word
shift_bytes_carrying(num, shift) ==
    IF shift < 0
    THEN {b + Abs(shift) : b \in num} \cap Squares
    ELSE {b - shift : b \in num} \cap Squares

shift_bytes(num, shift) ==
    UNION {ByteToRow(ShiftLane(isolate_byte(num, i), shift), i) : i \in 0 .. 7}

shift_u64(num_to_shift, shift) ==
    IF shift < 0
    THEN {b + Abs(shift) : b \in num_to_shift} \cap Squares
    ELSE {b - shift : b \in num_to_shift} \cap Squares

\* (column, row)
get_piece_coordinates(piece_bit) == <<piece_bit % 8, piece_bit \div 8>>

get_piece_bit(piece_coordinates) == piece_coordinates[2] * 8 + piece_coordinates[1]

(***************************************************************************)
(* direction_bitboards.rs: the direction templates                         *)
(***************************************************************************)

DirectionBitboard(bb, origin, shift) ==
    [bitboard |-> bb, origin_bit |-> origin, shift_type |-> shift]

DIAGONAL_RIGHT == DirectionBitboard({0, 9, 18, 27, 36, 45, 54, 63}, 36, "Diagonal")
DIAGONAL_LEFT == DirectionBitboard({7, 14, 21, 28, 35, 42, 49, 56}, 35, "Diagonal")
VERTICAL_LINE == DirectionBitboard({7, 15, 23, 31, 39, 47, 55, 63}, 31, "Byte")
HORIZONTAL_LINE == DirectionBitboard(56 .. 63, 60, "Standard")
KNIGHT_MOVES == DirectionBitboard({19, 21, 26, 30, 42, 46, 51, 53}, 36, "Both")
KING_MOVES == DirectionBitboard({27, 28, 29, 35, 37, 43, 44, 45}, 36, "Both")
WHITE_PAWN_MOVES == DirectionBitboard({28}, 36, "Both")
WHITE_PAWN_CAPTURE_MOVES == DirectionBitboard({27, 29}, 36, "Both")
BLACK_PAWN_MOVES == DirectionBitboard({44}, 36, "Both")
BLACK_PAWN_CAPTURE_MOVES == DirectionBitboard({43, 45}, 36, "Both")
WHITE_PAWN_DOUBLE_MOVES == DirectionBitboard({32, 40}, 48, "Both")
BLACK_PAWN_DOUBLE_MOVES == DirectionBitboard({16, 24}, 8, "Both")

ALL_CAPTURE_BITBOARDS ==
    <<DIAGONAL_RIGHT, DIAGONAL_LEFT, VERTICAL_LINE, HORIZONTAL_LINE, KNIGHT_MOVES, KING_MOVES>>

\* variant: every template is shifted as a whole word, rows first
shift_whole_word(piece_bit, piece_coordinates, direction_bitboard) ==
    shift_u64(direction_bitboard.bitboard,
              ((direction_bitboard.origin_bit \div 8) - piece_coordinates[2]) * 8
                  + ((direction_bitboard.origin_bit % 8) - piece_coordinates[1]))

\* Aligns a direction template with a piece at piece_bit
shift_direction_bitboard(piece_bit, piece_coordinates, direction_bitboard) ==
    LET origin_coordinates == get_piece_coordinates(direction_bitboard.origin_bit)
        dx == origin_coordinates[1] - piece_coordinates[1]
        dy == origin_coordinates[2] - piece_coordinates[2]
        bb == direction_bitboard.bitboard
    IN  IF origin_coordinates = piece_coordinates THEN bb
        ELSE CASE direction_bitboard.shift_type = "Standard" -> shift_u64(bb, dy * 8)
               [] direction_bitboard.shift_type = "Byte" -> shift_bytes(bb, dx)
               [] direction_bitboard.shift_type = "Both" -> shift_bytes(shift_u64(bb, dy * 8), dx)
               [] direction_bitboard.shift_type = "Diagonal" ->
                    LET piece_row == piece_coordinates[2]
                        direction_bitboard_row_byte == isolate_byte(bb, piece_row)
                        piece_position_bitboard_row_byte == isolate_byte({piece_bit}, piece_row)
                        ddx == trailing_zeros8(piece_position_bitboard_row_byte)
                                 - trailing_zeros8(direction_bitboard_row_byte)
                    IN  shift_bytes(bb, -ddx)

(***************************************************************************)
(* bitboard_manipulation.rs: slider blocker resolution                     *)
(***************************************************************************)

\* the output of one step of a walk: the bits kept at this step joined with
\* the output of the rest of the walk
JoinOutput(kept, next_output) == <<kept \cup next_output[1], next_output[2]>>

RECURSIVE remove_move_end_vertical(_, _, _, _)
\* Returns <<bitboard, Option<row at which the walk stopped>>>
remove_move_end_vertical(piece_row, move_bitboard, masked_bitboard, check_up) ==
    IF piece_row > 7 \/ piece_row < 0 THEN <<{}, None>>
    ELSE IF isolate_byte(move_bitboard, piece_row) = isolate_byte(masked_bitboard, piece_row)
         THEN JoinOutput(
                  ByteToRow(isolate_byte(masked_bitboard, piece_row), piece_row),
                  IF check_up
                  THEN remove_move_end_vertical(piece_row + 1, move_bitboard, masked_bitboard, check_up)
                  ELSE remove_move_end_vertical(piece_row - 1, move_bitboard, masked_bitboard, check_up))
         ELSE <<{}, Some(piece_row)>>

RECURSIVE remove_byte_ends(_, _, _)
\* Returns <<byte, Option<bit at which the walk stopped>>>
remove_byte_ends(bit, test_byte, check_up) ==
    IF bit > 7 \/ bit < 0 THEN <<{}, None>>
    ELSE IF bit_on(test_byte, bit)
         THEN JoinOutput({bit},
                         IF check_up
                         THEN remove_byte_ends(bit + 1, test_byte, check_up)
                         ELSE remove_byte_ends(bit - 1, test_byte, check_up))
         ELSE <<{}, Some(bit)>>

get_column_from_row(row, intercept_bitboard) ==
    IF row # None
    THEN Some(trailing_zeros8(isolate_byte(intercept_bitboard, Unwrap(row))))
    ELSE None

get_piece_bit_option(piece_column, piece_row) ==
    IF piece_column # None /\ piece_row # None
    THEN Some(get_piece_bit(<<Unwrap(piece_column), Unwrap(piece_row)>>))
    ELSE None

\* fix_move_bitboard for a line that is not horizontal, from the two walks
fix_vertical(fix_bitboard_lower, fix_bitboard_upper, intercept_bitboard) ==
    <<fix_bitboard_lower[1] \cup fix_bitboard_upper[1],
      <<get_piece_bit_option(get_column_from_row(fix_bitboard_lower[2], intercept_bitboard),
                             fix_bitboard_lower[2]),
        get_piece_bit_option(get_column_from_row(fix_bitboard_upper[2], intercept_bitboard),
                             fix_bitboard_upper[2])>>>>

\* fix_move_bitboard for the horizontal line, from the two walks
fix_horizontal(fix_byte_lower, fix_byte_upper, piece_row) ==
    <<ByteToRow(fix_byte_lower[1] \cup fix_byte_upper[1], piece_row),
      <<get_piece_bit_option(fix_byte_lower[2], Some(piece_row)),
        get_piece_bit_option(fix_byte_upper[2], Some(piece_row))>>>>

\* Returns <<fixed bitboard, <<lower first intersecting bit, upper first intersecting bit>>>>
fix_move_bitboard(piece_coordinates, direction_bitboard, move_bitboard, masked_bitboard) ==
    IF move_bitboard = masked_bitboard THEN <<masked_bitboard, <<None, None>>>>
    ELSE LET piece_column == piece_coordinates[1]
             piece_row == piece_coordinates[2]
         IN  IF direction_bitboard # HORIZONTAL_LINE.bitboard
             THEN fix_vertical(
                      remove_move_end_vertical(piece_row - 1, move_bitboard, masked_bitboard, FALSE),
                      remove_move_end_vertical(piece_row + 1, move_bitboard, masked_bitboard, TRUE),
                      Xor(move_bitboard, masked_bitboard))
             ELSE fix_horizontal(
                      remove_byte_ends(piece_column - 1, isolate_byte(masked_bitboard, piece_row), FALSE),
                      remove_byte_ends(piece_column + 1, isolate_byte(masked_bitboard, piece_row), TRUE),
                      piece_row)

(***************************************************************************)
(* fixed_vecor.rs: FixedVector<T, L>                                       *)
(* panicked models the abort of the out-of-bounds index in push            *)
(***************************************************************************)

FixedVector_new(placeholder_value, L) ==
    [internal_array |-> [i \in 1 .. L |-> placeholder_value], length |-> 0, panicked |-> FALSE]

FixedVector_len(v) == v.length

FixedVector_push(v, data) ==
    IF v.panicked \/ v.length >= Len(v.internal_array)
    THEN [v EXCEPT !.panicked = TRUE]
    ELSE [v EXCEPT !.internal_array[v.length + 1] = data, !.length = v.length + 1]

\* <<the vector after the call, the Option returned>>; the index
\* self.length - 1 is computed after the decrement, and with length 0 the
\* subtraction or the index aborts
FixedVector_pop(v) ==
    IF v.length > 0
    THEN IF (v.length - 1) - 1 < 0
         THEN <<[v EXCEPT !.length = v.length - 1, !.panicked = TRUE], None>>
         ELSE <<[v EXCEPT !.length = v.length - 1], Some(v.internal_array[((v.length - 1) - 1) + 1])>>
    ELSE <<v, None>>

\* push applied to each element of datas in turn
FixedVector_push_all(v, datas) ==
    IF v.panicked \/ v.length + Len(datas) > Len(v.internal_array)
    THEN [v EXCEPT !.panicked = TRUE]
    ELSE [v EXCEPT !.internal_array =
                       [i \in 1 .. Len(v.internal_array) |->
                           IF i > v.length /\ i <= v.length + Len(datas)
                           THEN datas[i - v.length] ELSE v.internal_array[i]],
                   !.length = v.length + Len(datas)]

RECURSIVE bits_on_loop(_, _, _)
bits_on_loop(num, bits_counted, bits_on_vector) ==
    IF ~(bits_counted < 64 /\ FixedVector_len(bits_on_vector) < Len(bits_on_vector.internal_array))
    THEN bits_on_vector
    ELSE IF num = {} THEN bits_on_vector
    ELSE LET tz == trailing_zeros64(num)
         IN  IF tz > 0
             THEN bits_on_loop(shift_u64(num, tz), bits_counted + tz, bits_on_vector)
             ELSE bits_on_loop(shift_u64(num, 1), bits_counted + 1,
                               FixedVector_push(bits_on_vector, bits_counted))

\* variant: the scan stops before the last bit of the word
bits_on_below_63(num, placeholder_num, L) ==
    bits_on_loop(num \ {63}, 0, FixedVector_new(placeholder_num, L))

\* Returns a vector containing the bits that are on in a u64 number
bits_on(num, placeholder_num, L) ==
    bits_on_loop(num, 0, FixedVector_new(placeholder_num, L))

(***************************************************************************)
(* pieces.rs                                                               *)
(***************************************************************************)

KING_ID == 6
PAWN_ID == 1

PieceInformation(value, sliding, ndirs, dirs, capture, double) ==
    [piece_value |-> value, is_sliding |-> sliding, move_directions |-> ndirs,
     direction_bitboards |-> dirs, pawn_capture_bitboard |-> capture,
     pawn_double_move_bitboard |-> double]

GENERIC_KNIGHT ==
    PieceInformation(3, FALSE, 1, <<Some(KING_MOVES), None, None, None>>, None, None)
GENERIC_BISHOP ==
    PieceInformation(3, TRUE, 2, <<Some(DIAGONAL_LEFT), Some(DIAGONAL_RIGHT), None, None>>, None, None)
GENERIC_ROOK ==
    PieceInformation(5, TRUE, 2, <<Some(HORIZONTAL_LINE), Some(VERTICAL_LINE), None, None>>, None, None)
GENERIC_QUEEN ==
    PieceInformation(9, TRUE, 4,
        <<Some(DIAGONAL_LEFT), Some(DIAGONAL_RIGHT), Some(HORIZONTAL_LINE), Some(VERTICAL_LINE)>>,
        None, None)
GENERIC_KING ==
    PieceInformation(0, FALSE, 1, <<Some(KING_MOVES), None, None, None>>, None, None)

\* indexed by piece id + 1; index 0 of the Rust array is the placeholder
BLACK_PIECE_INFORMATION ==
    <<GENERIC_KING,
      PieceInformation(1, FALSE, 1, <<Some(BLACK_PAWN_MOVES), None, None, None>>,
                       Some(BLACK_PAWN_CAPTURE_MOVES), Some(BLACK_PAWN_DOUBLE_MOVES)),
      GENERIC_KNIGHT, GENERIC_BISHOP, GENERIC_ROOK, GENERIC_QUEEN, GENERIC_KING>>

WHITE_PIECE_INFORMATION ==
    <<GENERIC_KING,
      PieceInformation(1, FALSE, 1, <<Some(WHITE_PAWN_MOVES), None, None, None>>,
                       Some(WHITE_PAWN_CAPTURE_MOVES), Some(WHITE_PAWN_DOUBLE_MOVES)),
      GENERIC_KNIGHT, GENERIC_BISHOP, GENERIC_ROOK, GENERIC_QUEEN, GENERIC_KING>>

(***************************************************************************)
(* board_representation.rs                                                 *)
(***************************************************************************)

STARTING_WHITE_BOARD ==
    <<(48 .. 55) \cup {58, 60, 61}, {57, 58, 59, 61, 62}, {56, 59, 60, 63}>>
STARTING_BLACK_BOARD ==
    <<{2, 4, 5} \cup (8 .. 15), {1, 2, 3, 5, 6}, {0, 3, 4, 7}>>

TEAM_MATERIAL_VALUE == 39

CastlingAvailability_new(common_state) ==
    [w_ks |-> common_state, w_qs |-> common_state, b_ks |-> common_state, b_qs |-> common_state]

Board_new ==
    [white_board |-> STARTING_WHITE_BOARD,
     black_board |-> STARTING_BLACK_BOARD,
     white_king_bit |-> 59,
     black_king_bit |-> 3,
     piece_to_move |-> "White",
     en_passant_target_bit |-> None,
     castling_availability |-> CastlingAvailability_new(TRUE),
     white_material |-> TEAM_MATERIAL_VALUE,
     black_material |-> TEAM_MATERIAL_VALUE,
     halfmove_clock |-> 0,
     fullmove_number |-> 1]

PerspectiveBoards_gen(board, from_persecpective) ==
    IF from_persecpective = "Black"
    THEN [friendly_board |-> board.black_board,
          enemy_board |-> board.white_board,
          friendly_starting_board |-> STARTING_BLACK_BOARD,
          friendly_piece_information |-> BLACK_PIECE_INFORMATION,
          enemy_team_color |-> "White"]
    ELSE [friendly_board |-> board.white_board,
          enemy_board |-> board.black_board,
          friendly_starting_board |-> STARTING_WHITE_BOARD,
          friendly_piece_information |-> WHITE_PIECE_INFORMATION,
          enemy_team_color |-> "Black"]

\* <<friendly_bitboard, enemy_bitboard>>
gen_bitboards(pb) ==
    <<pb.friendly_board[1] \cup pb.friendly_board[2] \cup pb.friendly_board[3],
      pb.enemy_board[1] \cup pb.enemy_board[2] \cup pb.enemy_board[3]>>

\* bit i of a piece id
IdBit(piece_id, i) == (piece_id \div (2 ^ i)) % 2 = 1

read_piece_id(team_board, piece_bit) ==
    (IF bit_on(team_board[1], piece_bit) THEN 1 ELSE 0)
    + (IF bit_on(team_board[2], piece_bit) THEN 2 ELSE 0)
    + (IF bit_on(team_board[3], piece_bit) THEN 4 ELSE 0)

insert_piece(piece_bit, piece_id, half_board) ==
    [i \in 1 .. 3 |->
        IF IdBit(piece_id, i - 1) THEN half_board[i] \cup {piece_bit} ELSE half_board[i]]

remove_piece(piece_bit, half_board) ==
    [i \in 1 .. 3 |->
        IF bit_on(half_board[i], piece_bit) THEN Xor(half_board[i], {piece_bit}) ELSE half_board[i]]

\* the fields of a board by colour
Opponent(color) == IF color = "Black" THEN "White" ELSE "Black"
KingBit(b, color) == IF color = "Black" THEN b.black_king_bit ELSE b.white_king_bit
TeamBoard(b, color) == IF color = "Black" THEN b.black_board ELSE b.white_board
Material(b, color) == IF color = "Black" THEN b.black_material ELSE b.white_material
Occupancy(team_board) == team_board[1] \cup team_board[2] \cup team_board[3]
RowOf(bit) == bit \div 8

(***************************************************************************)
(* en_passant.rs                                                           *)
(***************************************************************************)

calc_ep_move_bit(en_passant_target_bit, piece_color) ==
    IF piece_color = "White" THEN en_passant_target_bit - 8 ELSE en_passant_target_bit + 8

\* Returns Option<<<capture bit, move bit>>>
get_en_passant_capture(board, friendly_board, enemy_board, piece_bit) ==
    IF read_piece_id(friendly_board, piece_bit) # PAWN_ID THEN None
    ELSE IF board.en_passant_target_bit = None THEN None
    ELSE LET en_passant_target_bit == Unwrap(board.en_passant_target_bit)
         IN  IF Abs(piece_bit - en_passant_target_bit) > 1 THEN None
             ELSE IF read_piece_id(enemy_board, en_passant_target_bit) = PAWN_ID
                  THEN LET ep_move_bit == calc_ep_move_bit(en_passant_target_bit, board.piece_to_move)
                           friendly_move_bit_id == read_piece_id(friendly_board, ep_move_bit)
                           enemy_move_bit_id == read_piece_id(enemy_board, ep_move_bit)
                       IN  IF friendly_move_bit_id + enemy_move_bit_id = 0
                           THEN Some(<<en_passant_target_bit, ep_move_bit>>)
                           ELSE None
                  ELSE None

(***************************************************************************)
(* move_generation.rs                                                      *)
(***************************************************************************)

\* variant: the square the pawn passes over instead of the one it lands on
calc_ep_crossed_bit(move_bitboard, piece_color) ==
    IF piece_color = "White"
    THEN 63 - leading_zeros64(move_bitboard)
    ELSE trailing_zeros64(move_bitboard)

calc_ep_target_bit(move_bitboard, piece_color) ==
    IF piece_color = "White"
    THEN trailing_zeros64(move_bitboard)
    ELSE 63 - leading_zeros64(move_bitboard)

\* <<move_bitboard, friendly_mbb_intercepts, enemy_mbb_intercepts, intercepted_mbb>>
intercept_move_bitboard(move_bitboard, friendly_bitboard, enemy_bitboard) ==
    <<move_bitboard,
      move_bitboard \cap friendly_bitboard,
      move_bitboard \cap enemy_bitboard,
      Xor(move_bitboard, (move_bitboard \cap friendly_bitboard) \cup (move_bitboard \cap enemy_bitboard))>>

calc_move_bitboards(piece_bit, piece_coordinates, direction_bitboard, friendly_bitboard, enemy_bitboard) ==
    intercept_move_bitboard(
        shift_direction_bitboard(piece_bit, piece_coordinates, direction_bitboard),
        friendly_bitboard, enemy_bitboard)

\* variant: the pieces that cut the line off are left out, friend or foe
SlidingMovesUpToBlocker(fixed, enemy_bitboard) == fixed[1]

\* the contribution of direction i (0-based) to output_move_bitboard
\* a sliding direction: the resolved line plus the enemy pieces that cut it off
SlidingMoves(fixed, enemy_bitboard) ==
    fixed[1] \cup (enemy_bitboard \cap (fixed[2][1] \cup fixed[2][2]))

\* the moves of one direction from its move bitboards mbbs
MovesOfDirection(piece_bit, piece_coordinates, piece_information, direction_bitboard, mbbs, enemy_bitboard) ==
    IF ~piece_information.is_sliding
    THEN IF piece_information.pawn_capture_bitboard = None
         THEN Xor(mbbs[1], mbbs[2])
         ELSE mbbs[4] \cup
                  (enemy_bitboard \cap
                      shift_direction_bitboard(piece_bit, piece_coordinates,
                          Unwrap(piece_information.pawn_capture_bitboard)))
    ELSE SlidingMoves(
             fix_move_bitboard(piece_coordinates, direction_bitboard.bitboard, mbbs[1], mbbs[4]),
             enemy_bitboard)

DirectionMoves(piece_bit, piece_coordinates, piece_information, i, friendly_bitboard, enemy_bitboard) ==
    MovesOfDirection(piece_bit, piece_coordinates, piece_information,
        Unwrap(piece_information.direction_bitboards[i + 1]),
        calc_move_bitboards(piece_bit, piece_coordinates,
            Unwrap(piece_information.direction_bitboards[i + 1]),
            friendly_bitboard, enemy_bitboard),
        enemy_bitboard)

\* variant: the double move is used on any square of the board
double_move_anywhere(piece_bit, piece_id, piece_color, perspective_boards, double_mbbs) ==
    IF double_mbbs[4] = double_mbbs[1]
    THEN <<double_mbbs[1], Some(calc_ep_target_bit(double_mbbs[1], piece_color))>>
    ELSE <<{}, None>>

\* the double move of a pawn whose double-move bitboards are double_mbbs:
\* <<bits added to the output, Option<en passant target bit>>>
double_move(piece_bit, piece_id, piece_color, perspective_boards, double_mbbs) ==
    IF /\ piece_id = read_piece_id(perspective_boards.friendly_starting_board, piece_bit)
       /\ double_mbbs[4] = double_mbbs[1]
    THEN <<double_mbbs[1], Some(calc_ep_target_bit(double_mbbs[1], piece_color))>>
    ELSE <<{}, None>>

\* the return value of generate_moves from its three parts
generate_moves_output(double, direction_moves, en_passant_cap_bits) ==
    <<double[1] \cup direction_moves
          \cup (IF en_passant_cap_bits # None THEN {Unwrap(en_passant_cap_bits)[2]} ELSE {}),
      double[2], en_passant_cap_bits>>

\* Returns <<move bitboard, Option<en passant target bit>, Option<<<capture bit, move bit>>>>>
generate_moves(board, piece_bit, piece_id, piece_color, perspective_boards) ==
    LET piece_coordinates == get_piece_coordinates(piece_bit)
        piece_information == perspective_boards.friendly_piece_information[piece_id + 1]
        friendly_bitboard == gen_bitboards(perspective_boards)[1]
        enemy_bitboard == gen_bitboards(perspective_boards)[2]
    IN  generate_moves_output(
            IF piece_information.pawn_double_move_bitboard # None
            THEN double_move(piece_bit, piece_id, piece_color, perspective_boards,
                     calc_move_bitboards(piece_bit, piece_coordinates,
                         Unwrap(piece_information.pawn_double_move_bitboard),
                         friendly_bitboard, enemy_bitboard))
            ELSE <<{}, None>>,
            UNION {DirectionMoves(piece_bit, piece_coordinates, piece_information, i,
                                  friendly_bitboard, enemy_bitboard) :
                   i \in 0 .. piece_information.move_directions - 1},
            get_en_passant_capture(board, perspective_boards.friendly_board,
                                   perspective_boards.enemy_board, piece_bit))

(***************************************************************************)
(* check_validation.rs                                                     *)
(***************************************************************************)

FIXED_VECTOR_PLACEHOLDER_VALUE == 255
MAX_CHECKING_PIECES == 16

\* variant: the two diagonal templates are left out
get_checking_pieces_off_diagonals(board, king_color) ==
    LET enemy_board == IF king_color = "Black" THEN board.white_board ELSE board.black_board
        king_bit == IF king_color = "Black" THEN board.black_king_bit ELSE board.white_king_bit
        enemy_bitboard == enemy_board[1] \cup enemy_board[2] \cup enemy_board[3]
        king_coordinates == get_piece_coordinates(king_bit)
        potential_checking_pieces_bitboard ==
            UNION {shift_direction_bitboard(king_bit, king_coordinates, ALL_CAPTURE_BITBOARDS[k])
                       \cap enemy_bitboard : k \in 3 .. 6}
    IN  bits_on(potential_checking_pieces_bitboard, FIXED_VECTOR_PLACEHOLDER_VALUE, MAX_CHECKING_PIECES)

\* Returns a vector of pieces which could potentially be putting the king in check
get_potential_checking_pieces(board, king_color) ==
    LET enemy_board == IF king_color = "Black" THEN board.white_board ELSE board.black_board
        king_bit == IF king_color = "Black" THEN board.black_king_bit ELSE board.white_king_bit
        enemy_bitboard == enemy_board[1] \cup enemy_board[2] \cup enemy_board[3]
        king_coordinates == get_piece_coordinates(king_bit)
        potential_checking_pieces_bitboard ==
            UNION {shift_direction_bitboard(king_bit, king_coordinates, ALL_CAPTURE_BITBOARDS[k])
                       \cap enemy_bitboard : k \in 1 .. 6}
    IN  bits_on(potential_checking_pieces_bitboard, FIXED_VECTOR_PLACEHOLDER_VALUE, MAX_CHECKING_PIECES)

\* Returns true if the king is in check
is_king_in_check(board, king_color, potential_checking_pieces) ==
    LET enemy_color == IF king_color = "Black" THEN "White" ELSE "Black"
        king_bit == IF king_color = "Black" THEN board.black_king_bit ELSE board.white_king_bit
    IN  \E i \in 1 .. FixedVector_len(potential_checking_pieces) :
            LET potential_checking_piece_bit == potential_checking_pieces.internal_array[i]
            IN  /\ potential_checking_piece_bit # FIXED_VECTOR_PLACEHOLDER_VALUE
                /\ LET enemy_persepective_boards == PerspectiveBoards_gen(board, enemy_color)
                       enemy_piece_id ==
                           read_piece_id(enemy_persepective_boards.friendly_board,
                                         potential_checking_piece_bit)
                       enemy_piece_moves ==
                           generate_moves(board, potential_checking_piece_bit, enemy_piece_id,
                                          enemy_color, enemy_persepective_boards)[1]
                   IN  bit_on(enemy_piece_moves, king_bit)

(***************************************************************************)
(* turn.rs                                                                 *)
(***************************************************************************)

\* initial_board.clone()
Clone(board) == board

\* variant: take_turn works on the caller's board itself
CallerSharesBoard(initial_board, new_board) == new_board

\* take_turn borrows initial_board immutably and mutates only its clone:
\* the board behind the reference after the call
CallerBoardAfter(initial_board, new_board) == initial_board

\* variant: the captured piece is always read on the final bit
capture_piece_id_on_final_bit(enemy_board, final_bit, en_passant_capture_bit) ==
    read_piece_id(enemy_board, final_bit)

\* the id of the captured piece: read on the en passant capture bit when the
\* move is an en passant, on the final bit otherwise
capture_piece_id_of(enemy_board, final_bit, en_passant_capture_bit) ==
    IF en_passant_capture_bit # None
    THEN read_piece_id(enemy_board, Unwrap(en_passant_capture_bit))
    ELSE read_piece_id(enemy_board, final_bit)

\* the friendly piece leaves initial_bit and is inserted on final_bit
move_friendly_piece(initial_bit, final_bit, piece_id, friendly_board) ==
    insert_piece(final_bit, piece_id, remove_piece(initial_bit, friendly_board))

\* variant: the enemy piece on the final bit stays on the board
keep_captured_piece(final_bit, enemy_board) == enemy_board

\* the enemy piece on the square the piece moves to is removed
remove_captured_piece(final_bit, enemy_board) == remove_piece(final_bit, enemy_board)

\* variant: the cached king bit is never updated
keep_king_bit(new_board, piece_id, piece_to_move, final_bit) == new_board

\* a king move updates the cached king bit of the side that moved
update_king_bit(new_board, piece_id, piece_to_move, final_bit) ==
    IF piece_id = KING_ID
    THEN IF piece_to_move = "Black"
         THEN [new_board EXCEPT !.black_king_bit = final_bit]
         ELSE [new_board EXCEPT !.white_king_bit = final_bit]
    ELSE new_board

\* variant: the shortlist of the caller is reused even when the king moved
reuse_checking_pieces(new_board, piece_id, piece_to_move, potential_checking_pieces) ==
    potential_checking_pieces

\* the shortlist handed to is_king_in_check: recomputed when the king moved
checking_pieces_for_turn(new_board, piece_id, piece_to_move, potential_checking_pieces) ==
    IF piece_id = KING_ID
    THEN get_potential_checking_pieces(new_board, piece_to_move)
    ELSE potential_checking_pieces

\* The result of take_turn.  status is "Ok", "Check" or "NotCapture";
\* new_board is the local new_board as it stands when the function returns
\* (the returned board on Ok, the dropped local on Err); caller is the board
\* behind the initial_board reference once the call is over.
take_turn(initial_board, piece_id, initial_bit, final_bit, only_use_captures, ep_bits_for_turn, potential_checking_pieces) ==
    LET cloned == Clone(initial_board)
        mover == cloned.piece_to_move
        en_passant_target_bit == ep_bits_for_turn[1]
        en_passant_capture_bit == ep_bits_for_turn[2]
        friendly0 == IF mover = "Black" THEN cloned.black_board ELSE cloned.white_board
        enemy0 == IF mover = "Black" THEN cloned.white_board ELSE cloned.black_board
        next_piece_to_move == IF mover = "Black" THEN "White" ELSE "Black"
        capture_piece_id == capture_piece_id_of(enemy0, final_bit, en_passant_capture_bit)
        enemy1 ==
            IF en_passant_capture_bit # None
            THEN remove_piece(Unwrap(en_passant_capture_bit), enemy0)
            ELSE enemy0
        ep1 == IF en_passant_capture_bit # None THEN None ELSE cloned.en_passant_target_bit
        board1 ==
            IF mover = "Black"
            THEN [cloned EXCEPT !.white_board = enemy1, !.en_passant_target_bit = ep1]
            ELSE [cloned EXCEPT !.black_board = enemy1, !.en_passant_target_bit = ep1]
        capture_piece_value ==
            IF capture_piece_id = 0 THEN 0
            ELSE BLACK_PIECE_INFORMATION[capture_piece_id + 1].piece_value
        friendly2 == move_friendly_piece(initial_bit, final_bit, piece_id, friendly0)
        enemy2 == remove_captured_piece(final_bit, enemy1)
        board2 ==
            IF mover = "Black"
            THEN [board1 EXCEPT !.white_material = @ - capture_piece_value,
                                !.black_board = friendly2, !.white_board = enemy2]
            ELSE [board1 EXCEPT !.black_material = @ - capture_piece_value,
                                !.white_board = friendly2, !.black_board = enemy2]
        board3 == update_king_bit(board2, piece_id, initial_board.piece_to_move, final_bit)
        checking_pieces ==
            checking_pieces_for_turn(board3, piece_id, initial_board.piece_to_move,
                                     potential_checking_pieces)
        board4 ==
            [board3 EXCEPT
                !.fullmove_number = IF initial_board.piece_to_move = "Black" THEN @ + 1 ELSE @,
                !.en_passant_target_bit = en_passant_target_bit,
                !.halfmove_clock =
                    IF capture_piece_value = 0
                    THEN IF piece_id = PAWN_ID THEN 0 ELSE @ + 1
                    ELSE 0,
                !.piece_to_move = next_piece_to_move]
    IN  IF capture_piece_id = 0 /\ only_use_captures
        THEN [status |-> "NotCapture", new_board |-> board1, capture_value |-> 0,
              caller |-> CallerBoardAfter(initial_board, board1)]
        ELSE IF is_king_in_check(board3, initial_board.piece_to_move, checking_pieces)
        THEN [status |-> "Check", new_board |-> board3, capture_value |-> capture_piece_value,
              caller |-> CallerBoardAfter(initial_board, board3)]
        ELSE [status |-> "Ok", new_board |-> board4, capture_value |-> capture_piece_value,
              caller |-> CallerBoardAfter(initial_board, board4)]

\* variant: the reported target is handed on whichever move the pawn makes
ep_target_for_any_move(en_passant_target_bit, en_passant_cap_bits, move_bit) ==
    <<en_passant_target_bit,
      IF en_passant_cap_bits # None /\ move_bit = Unwrap(en_passant_cap_bits)[2]
      THEN Some(Unwrap(en_passant_cap_bits)[1]) ELSE None>>

\* Returns <<Option<en passant target bit>, Option<en passant capture bit>>>
get_ep_bits_for_turn(en_passant_target_bit, en_passant_cap_bits, move_bit) ==
    <<IF en_passant_target_bit # None /\ move_bit = Unwrap(en_passant_target_bit)
      THEN en_passant_target_bit ELSE None,
      IF en_passant_cap_bits # None /\ move_bit = Unwrap(en_passant_cap_bits)[2]
      THEN Some(Unwrap(en_passant_cap_bits)[1]) ELSE None>>

(***************************************************************************)
(* bot.rs: move ordering                                                   *)
(***************************************************************************)

NON_CAPTURE_WEIGHT == -10
I8_MIN == -128
I8_MAX == 127
MAX_MOVE_BITBOARD_BITS_ON == 28
MAX_TEAM_MOVES == 96

MoveInformation_new ==
    [initial_bit |-> 0, final_bit |-> 0, move_score |-> I8_MIN, ep_bits |-> <<None, None>>]

\* [T]::sort_by(|a, b| b.move_score.cmp(&a.move_score)): stable, descending score
RECURSIVE SortByScoreDesc(_, _)
SortByScoreDesc(arr, scores) ==
    IF scores = {} THEN <<>>
    ELSE LET m == SetMax(scores)
         IN  SelectSeq(arr, LAMBDA x : x.move_score = m) \o SortByScoreDesc(arr, scores \ {m})

sort_by_move_score(arr) ==
    SortByScoreDesc(arr, {arr[i].move_score : i \in 1 .. Len(arr)})

\* the inner loop of order_moves: the candidates pushed for the piece on
\* initial_bit, in push order, from its generated moves gen
piece_candidates(initial_bit, piece_id, pv_move, perspective_boards, gen, final_bits_vec) ==
    LET piece_value == perspective_boards.friendly_piece_information[piece_id + 1].piece_value
        candidate(i) ==
            LET final_bit == final_bits_vec.internal_array[i]
                enemy_piece_id == read_piece_id(perspective_boards.enemy_board, final_bit)
                enemy_piece_value ==
                    IF enemy_piece_id = 0 THEN 0
                    ELSE perspective_boards.friendly_piece_information[enemy_piece_id + 1].piece_value
                move_score ==
                    IF enemy_piece_value = 0 THEN NON_CAPTURE_WEIGHT
                    ELSE enemy_piece_value - piece_value
            IN  [initial_bit |-> initial_bit, final_bit |-> final_bit,
                 move_score |-> move_score,
                 ep_bits |-> get_ep_bits_for_turn(gen[2], gen[3], final_bit)]
        is_pv(m) ==
            /\ pv_move # None
            /\ m.initial_bit = Unwrap(pv_move).initial_bit
            /\ m.final_bit = Unwrap(pv_move).final_bit
    IN  SelectSeq([i \in 1 .. FixedVector_len(final_bits_vec) |-> candidate(i)],
                  LAMBDA m : ~is_pv(m))

\* the move bits of generated moves as the vector the inner loop walks
piece_moves(initial_bit, piece_id, pv_move, perspective_boards, gen) ==
    piece_candidates(initial_bit, piece_id, pv_move, perspective_boards, gen,
        bits_on(gen[1], FIXED_VECTOR_PLACEHOLDER_VALUE, MAX_MOVE_BITBOARD_BITS_ON))

\* one iteration of the outer loop of order_moves: the square initial_bit
order_moves_piece(initial_bit, board, pv_move, perspective_boards) ==
    IF read_piece_id(perspective_boards.friendly_board, initial_bit) = 0 THEN <<>>
    ELSE piece_moves(initial_bit, read_piece_id(perspective_boards.friendly_board, initial_bit),
             pv_move, perspective_boards,
             generate_moves(board, initial_bit,
                 read_piece_id(perspective_boards.friendly_board, initial_bit),
                 board.piece_to_move, perspective_boards))

\* the outer loop of order_moves over the squares lo..hi, in ascending order
RECURSIVE order_moves_loop(_, _, _, _, _)
order_moves_loop(lo, hi, board, pv_move, perspective_boards) ==
    IF lo = hi THEN order_moves_piece(lo, board, pv_move, perspective_boards)
    ELSE LET mid == (lo + hi) \div 2
         IN  order_moves_loop(lo, mid, board, pv_move, perspective_boards)
                 \o order_moves_loop(mid + 1, hi, board, pv_move, perspective_boards)

\* Returns a FixedVector of candidate moves sorted by score
\* the end of order_moves: the PV move is pushed with the top score and the
\* backing array is sorted
push_pv_and_sort(enumerated, pv_move) ==
    [(IF pv_move # None
      THEN FixedVector_push(enumerated, [Unwrap(pv_move) EXCEPT !.move_score = I8_MAX])
      ELSE enumerated)
     EXCEPT !.internal_array = sort_by_move_score(@)]

\* Returns a FixedVector of candidate moves sorted by score
order_moves(board, pv_move, perspective_boards) ==
    push_pv_and_sort(
        FixedVector_push_all(FixedVector_new(MoveInformation_new, MAX_TEAM_MOVES),
                             order_moves_loop(0, 63, board, pv_move, perspective_boards)),
        pv_move)

(***************************************************************************)
(* pesto.rs: the piece square tables                                       *)
(***************************************************************************)

\* The piece square tables, indexed by piece id and then by table index.
MIDGAME_TABLES ==
    <<\* PLACEHOLDER_TABLE
      [index \in 1 .. 64 |-> 0],
      \* MG_PAWN_TABLE
      <<   0,    0,    0,    0,    0,    0,    0,    0,
          98,  127,   61,   95,   68,  126,   34,  -11,
          -6,    7,   26,   31,   65,   56,   25,  -20,
         -14,   13,    6,   21,   23,   12,   17,  -23,
         -27,   -2,   -5,   12,   17,    6,   10,  -25,
         -26,   -4,   -4,  -10,    3,    3,   33,  -12,
         -35,   -1,  -20,  -23,  -15,   24,   38,  -22,
           0,    0,    0,    0,    0,    0,    0,    0>>,
      \* MG_KNIGHT_TABLE
      <<-128,  -89,  -34,  -49,   61,  -97,  -15, -107,
         -73,  -41,   72,   36,   23,   62,    7,  -17,
         -47,   60,   37,   65,   84,  127,   73,   44,
          -9,   17,   19,   53,   37,   69,   18,   22,
         -13,    4,   16,   13,   28,   19,   21,   -8,
         -23,   -9,   12,   10,   19,   17,   25,  -16,
         -29,  -53,  -12,   -3,   -1,   18,  -14,  -19,
        -105,  -21,  -58,  -33,  -17,  -28,  -19,  -23>>,
      \* MG_BISHOP_TABLE
      << -29,    4,  -82,  -37,  -25,  -42,    7,   -8,
         -26,   16,  -18,  -13,   30,   59,   18,  -47,
         -16,   37,   43,   40,   35,   50,   37,   -2,
          -4,    5,   19,   50,   37,   37,    7,   -2,
          -6,   13,   13,   26,   34,   12,   10,    4,
           0,   15,   15,   15,   14,   27,   18,   10,
           4,   15,   16,    0,    7,   21,   33,    1,
         -33,   -3,  -14,  -21,  -13,  -12,  -39,  -21>>,
      \* MG_ROOK_TABLE
      <<  32,   42,   32,   51,   63,    9,   31,   43,
          27,   32,   58,   62,   80,   67,   26,   44,
          -5,   19,   26,   36,   17,   45,   61,   16,
         -24,  -11,    7,   26,   24,   35,   -8,  -20,
         -36,  -26,  -12,   -1,    9,   -7,    6,  -23,
         -45,  -25,  -16,  -17,    3,    0,   -5,  -33,
         -44,  -16,  -20,   -9,   -1,   11,   -6,  -71,
         -19,  -13,    1,   17,   16,    7,  -37,  -26>>,
      \* MG_QUEEN_TABLE
      << -28,    0,   29,   12,   59,   44,   43,   45,
         -24,  -39,   -5,    1,  -16,   57,   28,   54,
         -13,  -17,    7,    8,   29,   56,   47,   57,
         -27,  -27,  -16,  -16,   -1,   17,   -2,    1,
          -9,  -26,   -9,  -10,   -2,   -4,    3,   -3,
         -14,    2,  -11,   -2,   -5,    2,   14,    5,
         -35,   -8,   11,    2,    8,   15,   -3,    1,
          -1,  -18,   -9,   10,  -15,  -25,  -31,  -50>>,
      \* MG_KING_TABLE
      << -65,   23,   16,  -15,  -56,  -34,    2,   13,
          29,   -1,  -20,   -7,   -8,   -4,  -38,  -29,
          -9,   24,    2,  -16,  -20,    6,   22,  -22,
         -17,  -20,  -12,  -27,  -30,  -25,  -14,  -36,
         -49,   -1,  -27,  -39,  -46,  -44,  -33,  -51,
         -14,  -14,  -22,  -46,  -44,  -30,  -15,  -27,
           1,    7,   -8,  -64,  -43,  -16,    9,    8,
         -15,   36,   12,  -54,    8,  -28,   24,   14>>>>

ENDGAME_TABLES ==
    <<\* PLACEHOLDER_TABLE
      [index \in 1 .. 64 |-> 0],
      \* EG_PAWN_TABLE
      <<   0,    0,    0,    0,    0,    0,    0,    0,
         127,  127,  127,  127,  127,  127,  127,  127,
          94,  100,   85,   67,   56,   53,   82,   84,
          32,   24,   13,    5,   -2,    4,   17,   17,
          13,    9,   -3,   -7,   -7,   -8,    3,   -1,
           4,    7,   -6,    1,    0,   -5,   -1,   -8,
          13,    8,    8,   10,   13,    0,    2,   -7,
           0,    0,    0,    0,    0,    0,    0,    0>>,
      \* EG_KNIGHT_TABLE
      << -58,  -38,  -13,  -28,  -31,  -27,  -63,  -99,
         -25,   -8,  -25,   -2,   -9,  -25,  -24,  -52,
         -24,  -20,   10,    9,   -1,   -9,  -19,  -41,
         -17,    3,   22,   22,   22,   11,    8,  -18,
         -18,   -6,   16,   25,   16,   17,    4,  -18,
         -23,   -3,   -1,   15,   10,   -3,  -20,  -22,
         -42,  -20,  -10,   -5,   -2,  -20,  -23,  -44,
         -29,  -51,  -23,  -15,  -22,  -18,  -50,  -64>>,
      \* EG_BISHOP_TABLE
      << -14,  -21,  -11,   -8,   -7,   -9,  -17,  -24,
          -8,   -4,    7,  -12,   -3,  -13,   -4,  -14,
           2,   -8,    0,   -1,   -2,    6,    0,    4,
          -3,    9,   12,    9,   14,   10,    3,    2,
          -6,    3,   13,   19,    7,   10,   -3,   -9,
         -12,   -3,    8,   10,   13,    3,   -7,  -15,
         -14,  -18,   -7,   -1,    4,   -9,  -15,  -27,
         -23,   -9,  -23,   -5,   -9,  -16,   -5,  -17>>,
      \* EG_ROOK_TABLE
      <<  13,   10,   18,   15,   12,   12,    8,    5,
          11,   13,   13,   11,   -3,    3,    8,    3,
           7,    7,    7,    5,    4,   -3,   -5,   -3,
           4,    3,   13,    1,    2,    1,   -1,    2,
           3,    5,    8,    4,   -5,   -6,   -8,  -11,
          -4,    0,   -5,   -1,   -7,  -12,   -8,  -16,
          -6,   -6,    0,    2,   -9,   -9,  -11,   -3,
          -9,    2,    3,   -1,   -5,  -13,    4,  -20>>,
      \* EG_QUEEN_TABLE
      <<  -9,   22,   22,   27,   27,   19,   10,   20,
         -17,   20,   32,   41,   58,   25,   30,    0,
         -20,    6,    9,   49,   47,   35,   19,    9,
           3,   22,   24,   45,   57,   40,   57,   36,
         -18,   28,   19,   47,   31,   34,   39,   23,
         -16,  -27,   15,    6,    9,   17,   10,    5,
         -22,  -23,  -30,  -16,  -16,  -23,  -36,  -32,
         -33,  -28,  -22,  -43,   -5,  -32,  -20,  -41>>,
      \* EG_KING_TABLE
      << -74,  -35,  -18,  -18,  -11,   15,    4,  -17,
         -12,   17,   14,   17,   17,   38,   23,   11,
          10,   17,   23,   15,   20,   45,   44,   13,
          -8,   22,   24,   27,   26,   33,   26,    3,
         -18,   -4,   21,   24,   27,   23,    9,  -11,
         -19,   -3,   11,   21,   23,   16,    7,   -9,
         -27,  -11,    4,   13,   14,    4,   -5,  -17,
         -53,  -34,  -21,  -11,  -28,  -14,  -24,  -43>>>>

\* Converts bitboard bit to pesto table index
convert_bit_to_index(bit) ==
    Abs(get_piece_coordinates(bit)[1] - 7) + get_piece_coordinates(bit)[2] * 8

\* inverts the index so the tables can be used from the black team's perspective
invert_index(index) == Abs(index - 63)

(***************************************************************************)
(* generic_math.rs, bot_eval.rs                                            *)
(*                                                                         *)
(* f32_scale yields a fraction.  The model carries every fraction as an    *)
(* integer number of units: f32_scale(..., unit) is unit times the value   *)
(* of the engine's f32_scale, and the units are chosen so that every       *)
(* division below is exact.                                                *)
(***************************************************************************)

f32_scale(input, input_min, input_max, unit) ==
    (unit * (input - input_min)) \div (input_max - input_min)

\* the weights, in tenths
MATERIAL_WEIGHT == 7
SQUARE_TABLE_WEIGHT == 3

\* get_table_value in units of 1 / TableScale, eval in units of 1 / EvalScale
TableScale == 600 * TEAM_MATERIAL_VALUE
EvalScale == (10 * TableScale) \div SQUARE_TABLE_WEIGHT

\* the loop of get_table_value: the sum of the table entries of the pieces of
\* friendly_board on the given squares
RECURSIVE table_total(_, _, _, _)
table_total(tables, friendly_board, invert_indices, bits) ==
    IF bits = {} THEN 0
    ELSE tables[read_piece_id(friendly_board, SetMin(bits)) + 1]
               [(IF invert_indices
                 THEN invert_index(convert_bit_to_index(SetMin(bits)))
                 ELSE convert_bit_to_index(SetMin(bits))) + 1]
         + table_total(tables, friendly_board, invert_indices, bits \ {SetMin(bits)})

\* total_mg * mg_weight + total_eg * (1.0 - mg_weight), times TEAM_MATERIAL_VALUE;
\* mg_weight is in units of 1 / TEAM_MATERIAL_VALUE
table_blend(total_mg, total_eg, mg_weight) ==
    total_mg * mg_weight + total_eg * (TEAM_MATERIAL_VALUE - mg_weight)

\* how much the board aligns with the piece square tables, times TableScale
get_table_value(board) ==
    f32_scale(
        table_blend(
            table_total(MIDGAME_TABLES, TeamBoard(board, board.piece_to_move),
                        board.piece_to_move = "Black",
                        Occupancy(TeamBoard(board, board.piece_to_move))),
            table_total(ENDGAME_TABLES, TeamBoard(board, board.piece_to_move),
                        board.piece_to_move = "Black",
                        Occupancy(TeamBoard(board, board.piece_to_move))),
            f32_scale(Material(board, board.piece_to_move), 0, TEAM_MATERIAL_VALUE,
                      TEAM_MATERIAL_VALUE)),
        (-300) * TEAM_MATERIAL_VALUE, 300 * TEAM_MATERIAL_VALUE, TableScale)

\* the leaf evaluation, times EvalScale
eval(material_change, board) ==
    f32_scale(material_change, -20, 20, (EvalScale * MATERIAL_WEIGHT) \div 10)
    + get_table_value(board)

(***************************************************************************)
(* bot.rs: minimax                                                         *)
(*                                                                         *)
(* Values are the engine's f32 values times EvalScale, in exact            *)
(* arithmetic: f32 rounding is not modelled.  f32::MIN and f32::MAX are    *)
(* the two integers F32_MIN and F32_MAX, below and above every value the   *)
(* search computes.                                                        *)
(***************************************************************************)

CHECKMATE_WEIGHT == 5 * EvalScale
QUIESCENCE_SEARCH_MAX_DEPTH == 3
F32_MIN == -2000000000
F32_MAX == 2000000000

\* what a call of minimax returns
MinimaxReturn(value, move_information, timeout) ==
    [value |-> value, move_information |-> move_information, timeout |-> timeout]

\* the return of a call that observed the deadline, or whose child did
TimeoutReturn == MinimaxReturn(0, MoveInformation_new, TRUE)

\* <<min_or_max, parent_min_max_def, min_max_multiplier>>
minimax_defaults(is_returning_max) ==
    IF is_returning_max THEN <<F32_MIN, F32_MAX, 1>> ELSE <<F32_MAX, F32_MIN, -1>>

\* variant: a branch of the same value replaces the best one
update_on_equal(min_or_max, branch_value, is_returning_max) ==
    IF is_returning_max THEN branch_value >= min_or_max ELSE branch_value <= min_or_max

\* Return true if the min_or_max value should be updated to the branch_value
update_min_or_max(min_or_max, branch_value, is_returning_max) ==
    IF is_returning_max THEN branch_value > min_or_max ELSE branch_value < min_or_max

\* Return true if the current branch should be pruned
prune(parent_min_max, min_or_max, is_returning_max) ==
    IF is_returning_max THEN min_or_max >= parent_min_max ELSE min_or_max <= parent_min_max

\* the parent_value handed to the child of a successful turn
child_parent_value(parent_value, capture_value, min_max_multiplier) ==
    parent_value + (capture_value * min_max_multiplier) * min_max_multiplier

\* the return of a node whose loop over the candidates is over
minimax_result(board, parent_value, quiescence_search, is_returning_max, children_searched, king_was_in_check, min_or_max, best_move) ==
    IF children_searched = 0 /\ quiescence_search
    THEN MinimaxReturn(eval(parent_value, board), MoveInformation_new, FALSE)
    ELSE IF children_searched = 0 /\ king_was_in_check
    THEN MinimaxReturn(CHECKMATE_WEIGHT * (-minimax_defaults(is_returning_max)[3]),
                       MoveInformation_new, FALSE)
    ELSE MinimaxReturn(min_or_max, best_move, FALSE)

\* variant: the result of a depth that timed out is kept
keep_timed_out_move(pv_move, move_information, timeout) == Some(move_information)

\* the pv_move of gen_best_move after one depth
next_pv_move(pv_move, move_information, timeout) ==
    IF timeout THEN pv_move ELSE Some(move_information)

\* variant: without a PV move the placeholder squares are returned
placeholder_result(pv_move) ==
    [ok |-> TRUE,
     move |-> IF pv_move # None
              THEN <<Unwrap(pv_move).initial_bit, Unwrap(pv_move).final_bit>>
              ELSE <<MoveInformation_new.initial_bit, MoveInformation_new.final_bit>>]

\* the value gen_best_move returns
best_move_result(pv_move) ==
    IF pv_move # None
    THEN [ok |-> TRUE, move |-> <<Unwrap(pv_move).initial_bit, Unwrap(pv_move).final_bit>>]
    ELSE [ok |-> FALSE, move |-> <<>>]

(***************************************************************************)
(* board_representation.rs: read_fen                                       *)
(*                                                                         *)
(* The piece placement of a FEN string is given parsed: a sequence of      *)
(* <<bit, colour, piece id>> in the order of the string.  The castling and *)
(* clock fields are left as Board::empty makes them.                       *)
(***************************************************************************)

Board_empty ==
    [white_board |-> <<{}, {}, {}>>,
     black_board |-> <<{}, {}, {}>>,
     white_king_bit |-> 0,
     black_king_bit |-> 0,
     piece_to_move |-> "White",
     en_passant_target_bit |-> None,
     castling_availability |-> CastlingAvailability_new(FALSE),
     white_material |-> 0,
     black_material |-> 0,
     halfmove_clock |-> 0,
     fullmove_number |-> 1]

\* one piece character of the placement field
read_fen_piece(board, bit, color, piece_id) ==
    IF color = "Black"
    THEN [board EXCEPT
            !.black_king_bit = IF piece_id = KING_ID THEN bit ELSE @,
            !.black_board = insert_piece(bit, piece_id, @),
            !.black_material = @ + BLACK_PIECE_INFORMATION[piece_id + 1].piece_value]
    ELSE [board EXCEPT
            !.white_king_bit = IF piece_id = KING_ID THEN bit ELSE @,
            !.white_board = insert_piece(bit, piece_id, @),
            !.white_material = @ + WHITE_PIECE_INFORMATION[piece_id + 1].piece_value]

RECURSIVE read_fen_placement(_, _)
read_fen_placement(board, placement) ==
    IF placement = <<>> THEN board
    ELSE read_fen_placement(
             read_fen_piece(board, placement[1][1], placement[1][2], placement[1][3]),
             Tail(placement))

read_fen(placement, piece_to_move) ==
    [read_fen_placement(Board_empty, placement) EXCEPT !.piece_to_move = piece_to_move]

(***************************************************************************)
(* Turn application as a state machine.                                    *)
(*                                                                         *)
(* A caller (a search node, or a game being played) holds a board, computes *)
(* the candidate moves and the potential-checkers shortlist once on it and  *)
(* hands each candidate to take_turn; on Ok it may go on from the returned  *)
(* board.                                                                  *)
(***************************************************************************)

VARIABLES
    board,      \* the board the caller holds
    ply,        \* the number of turns applied since the initial board
    pc,         \* "idle": before a call of take_turn; "returned": after it
    turn,       \* the last call of take_turn: its arguments and its result
    root,       \* the board gen_best_move is called on
    dpc,        \* gen_best_move: "loop", "searching" (minimax runs), "done"
    depth_limit,\* the loop variable of gen_best_move
    pv_move,    \* the pv_move of gen_best_move
    stack,      \* the calls of minimax in progress
    ret,        \* what the call that returned last returned, until its caller takes it
    expired,    \* a call has read the clock and found the budget exceeded
    searched,   \* the iterations of gen_best_move's loop that are over
    result,     \* what gen_best_move returned
    probe       \* a function applied to board on its own: its arguments and its output

vars ==
    <<board, ply, pc, turn, root, dpc, depth_limit, pv_move, stack, ret, expired, searched,
      result, probe>>
search_vars ==
    <<root, dpc, depth_limit, pv_move, stack, ret, expired, searched, result, probe>>

\* the number of turns applied on top of an initial board
MaxPly == 2

\* the candidates of a node: the first len() entries of order_moves without a PV move
Filled(moves) == SubSeq(moves.internal_array, 1, FixedVector_len(moves))
Candidates(b) == Filled(order_moves(b, None, PerspectiveBoards_gen(b, b.piece_to_move)))

\* one call of take_turn the way minimax makes it for the candidate move_information
TurnCall(b, move_information, only_use_captures, potential_checking_pieces) ==
    LET pb == PerspectiveBoards_gen(b, b.piece_to_move)
        piece_id == read_piece_id(pb.friendly_board, move_information.initial_bit)
    IN  [before |-> b,
         piece_id |-> piece_id,
         initial_bit |-> move_information.initial_bit,
         final_bit |-> move_information.final_bit,
         only_use_captures |-> only_use_captures,
         ep_bits |-> move_information.ep_bits,
         reported_ep_target |->
             generate_moves(b, move_information.initial_bit, piece_id, b.piece_to_move, pb)[2],
         potential_checking_pieces |-> potential_checking_pieces,
         result |-> take_turn(b, piece_id, move_information.initial_bit,
                              move_information.final_bit, only_use_captures,
                              move_information.ep_bits, potential_checking_pieces)]

\* The board reached from b by playing the given <<from, to>> moves, each of
\* them a candidate of move ordering that take_turn accepts.
PlayMove(b, cands, move) ==
    TurnCall(b,
             cands[CHOOSE i \in 1 .. Len(cands) :
                       cands[i].initial_bit = move[1] /\ cands[i].final_bit = move[2]],
             FALSE, get_potential_checking_pieces(b, b.piece_to_move)).result

RECURSIVE Play(_, _)
RECURSIVE PlayOn(_, _, _)
Play(b, line) ==
    IF line = <<>> THEN b ELSE PlayOn(b, PlayMove(b, Candidates(b), line[1]), Tail(line))
PlayOn(b, turn_data, rest) ==
    IF turn_data.status = "Ok" THEN Play(turn_data.new_board, rest) ELSE b

\* Opening lines from the starting position; play starts after one of them.
\* a3 f5, a4 f4, g4: Black may capture en passant
LineBlackEnPassant == <<<<55, 47>>, <<10, 26>>, <<47, 39>>, <<26, 34>>, <<49, 33>>>>
\* e4 a6, e5 d5: White may capture en passant
LineWhiteEnPassant == <<<<51, 35>>, <<15, 23>>, <<35, 27>>, <<12, 28>>>>
\* a3 e6, a4 Bb4, a5 Bxd2+: the white king is in check from the next square
LineBishopCheck == <<<<55, 47>>, <<11, 19>>, <<47, 39>>, <<2, 38>>, <<39, 31>>, <<38, 52>>>>

\* e4 e5, Ke2 Qg5: the white king may step onto e3, which the queen attacks
LineKingWalk == <<<<51, 35>>, <<11, 27>>, <<59, 51>>, <<4, 25>>>>

InitBoards ==
    {Play(Board_new, line) :
        line \in {LineBlackEnPassant, LineWhiteEnPassant, LineBishopCheck, LineKingWalk}}

NoTurn == [status |-> "None"]
NoProbe == [function |-> "None"]

Init ==
    /\ board \in InitBoards
    /\ ply = 0
    /\ pc = "idle"
    /\ turn = NoTurn
    /\ root = Board_new
    /\ dpc = "off"
    /\ depth_limit = 3
    /\ pv_move = None
    /\ stack = <<>>
    /\ ret = None
    /\ expired = FALSE
    /\ searched = <<>>
    /\ result = None
    /\ probe = NoProbe

\* the calls of take_turn a caller holding b can make: any candidate, in a
\* normal or a captures-only node, with the shortlist computed once on b
TurnCalls(b, cands, potential_checking_pieces) ==
    {TurnCall(b, cands[i], only_use_captures, potential_checking_pieces) :
        i \in 1 .. Len(cands), only_use_captures \in BOOLEAN}

\* the caller applies one candidate of its board with take_turn
CallTakeTurn ==
    /\ pc = "idle"
    /\ ply < MaxPly
    /\ \E call \in TurnCalls(board, Candidates(board),
                              get_potential_checking_pieces(board, board.piece_to_move)) :
           /\ turn' = call
           /\ board' = call.result.caller
    /\ pc' = "returned"
    /\ UNCHANGED <<ply, search_vars>>

\* the caller goes on from the board take_turn returned
Descend ==
    /\ pc = "returned"
    /\ turn.result.status = "Ok"
    /\ board' = turn.result.new_board
    /\ ply' = ply + 1
    /\ pc' = "idle"
    /\ turn' = NoTurn
    /\ UNCHANGED search_vars

\* the caller drops the result and turns to another candidate of the same board
NextCandidate ==
    /\ pc = "returned"
    /\ pc' = "idle"
    /\ turn' = NoTurn
    /\ UNCHANGED <<board, ply, search_vars>>

Next == CallTakeTurn \/ Descend \/ NextCandidate

Spec == Init /\ [][Next]_vars

(***************************************************************************)
(* Turn application on boards read with read_fen.                          *)
(*                                                                         *)
(* read_fen accepts any placement and any clocks, so a caller may hold a   *)
(* board no game reaches, such as one on which the side to move attacks    *)
(* the king of the other side.                                             *)
(***************************************************************************)

\* the en passant and clock fields of a FEN string (fields 3, 4 and 5)
read_fen_fields(b, en_passant_target_bit, halfmove_clock, fullmove_number) ==
    [b EXCEPT
        !.en_passant_target_bit = en_passant_target_bit,
        !.halfmove_clock = halfmove_clock,
        !.fullmove_number = fullmove_number]

\* k6R/8/8/8/8/8/8/7K w - - 3 1: the white rook attacks the black king
FenKingEnPrise ==
    read_fen_fields(read_fen(<<<<7, "Black", 6>>, <<0, "White", 4>>, <<56, "White", 6>>>>,
                             "White"),
                    None, 3, 1)
\* k7/8/8/8/5pP1/8/8/7K b - 33 4 7: Black may capture en passant
FenEnPassant ==
    read_fen_fields(read_fen(<<<<7, "Black", 6>>, <<34, "Black", 1>>, <<33, "White", 1>>,
                               <<56, "White", 6>>>>, "Black"),
                    Some(33), 4, 7)
\* k7/8/8/4p3/3P4/8/8/7K w - - 5 9: either side may capture a pawn
FenPawnTension ==
    read_fen_fields(read_fen(<<<<7, "Black", 6>>, <<27, "Black", 1>>, <<36, "White", 1>>,
                               <<56, "White", 6>>>>, "White"),
                    None, 5, 9)

FenBoards == {FenKingEnPrise, FenEnPassant, FenPawnTension}

FenInit ==
    /\ board \in FenBoards
    /\ ply = 0
    /\ pc = "idle"
    /\ turn = NoTurn
    /\ root = Board_new
    /\ dpc = "off"
    /\ depth_limit = 3
    /\ pv_move = None
    /\ stack = <<>>
    /\ ret = None
    /\ expired = FALSE
    /\ searched = <<>>
    /\ result = None
    /\ probe = NoProbe

FenSpec == FenInit /\ [][Next]_vars

(***************************************************************************)
(* gen_best_move and minimax as a state machine.                           *)
(*                                                                         *)
(* stack holds the calls of minimax in progress, the root call first.  A   *)
(* call is at "entry" before its first statement, at "loop" before an      *)
(* iteration of its loop over the candidates, at "await" while the child   *)
(* it called runs and at "tail" while the quiescence search it returns     *)
(* runs.  A step takes the call on top of the stack to its next call of    *)
(* minimax or to its return.  Every call reads the clock once, on entry;   *)
(* between two readings any amount of time may pass, so a reading may      *)
(* find the budget exceeded at any call, and every later reading does.     *)
(***************************************************************************)

\* the end of the range of depth limits of gen_best_move (100 in the engine)
MaxDepthLimit == 5

\* k7/PP6/1K6/8/8/8/8/8 b: Black is checkmated
RootCheckmated ==
    read_fen(<<<<7, "Black", 6>>, <<15, "White", 1>>, <<14, "White", 1>>, <<22, "White", 6>>>>,
             "Black")
\* k7/P7/K7/8/8/8/8/8 b: Black is stalemated
RootStalemated ==
    read_fen(<<<<7, "Black", 6>>, <<15, "White", 1>>, <<23, "White", 6>>>>, "Black")
\* k7/8/8/4p3/3P4/8/8/7K w: either side may capture a pawn
RootPawnTension ==
    read_fen(<<<<7, "Black", 6>>, <<27, "Black", 1>>, <<36, "White", 1>>, <<56, "White", 6>>>>,
             "White")

\* k7/8/5p2/4p3/p1pP1P2/1P6/P7/7K w: pawn exchanges on two squares
RootPawnExchange ==
    read_fen(<<<<7, "Black", 6>>, <<18, "Black", 1>>, <<27, "Black", 1>>, <<39, "Black", 1>>,
               <<37, "Black", 1>>, <<36, "White", 1>>, <<34, "White", 1>>, <<46, "White", 1>>,
               <<55, "White", 1>>, <<56, "White", 6>>>>, "White")

\* 8/6K1/8/8/8/8/pp6/kp6 b: no black piece has a square to go to
RootBoxedIn ==
    read_fen(<<<<9, "White", 6>>, <<55, "Black", 1>>, <<54, "Black", 1>>, <<63, "Black", 6>>,
               <<62, "Black", 1>>>>, "Black")

SearchRoots == {RootCheckmated, RootStalemated, RootBoxedIn, RootPawnTension, RootPawnExchange}

\* a call of minimax with its arguments, before its first statement
Call(b, parent_value, parent_min_max, pv, is_returning_max, current_depth, limit, quiescence_search) ==
    [board |-> b,
     parent_value |-> parent_value,
     parent_min_max |-> parent_min_max,
     pv_move |-> pv,
     is_returning_max |-> is_returning_max,
     current_depth |-> current_depth,
     depth_limit |-> limit,
     quiescence_search |-> quiescence_search,
     at |-> "entry",
     moves |-> <<>>,
     potential_checking_pieces |->
         FixedVector_new(FIXED_VECTOR_PLACEHOLDER_VALUE, MAX_CHECKING_PIECES),
     i |-> 0,
     min_or_max |-> 0,
     best_move |-> MoveInformation_new,
     king_was_in_check |-> FALSE,
     children_searched |-> 0]

\* the locals of a call once lines 127-144 have run
begin_node(call) ==
    [call EXCEPT
        !.at = "loop",
        !.min_or_max = minimax_defaults(call.is_returning_max)[1],
        !.moves =
            Filled(order_moves(call.board, call.pv_move,
                               PerspectiveBoards_gen(call.board, call.board.piece_to_move))),
        !.potential_checking_pieces =
            get_potential_checking_pieces(call.board, call.board.piece_to_move)]

\* parent_min_max.unwrap_or(parent_min_max_def)
parent_min_max_of(call) ==
    IF call.parent_min_max # None
    THEN Unwrap(call.parent_min_max)
    ELSE minimax_defaults(call.is_returning_max)[2]

\* the call of take_turn of iteration i
turn_of(call, i) ==
    take_turn(call.board,
              read_piece_id(TeamBoard(call.board, call.board.piece_to_move),
                            call.moves[i + 1].initial_bit),
              call.moves[i + 1].initial_bit, call.moves[i + 1].final_bit,
              call.quiescence_search, call.moves[i + 1].ep_bits,
              call.potential_checking_pieces)

\* The iterations of the loop from iteration i on, up to the first one whose
\* turn succeeds: that iteration, the flag as the rejected turns before it
\* leave it, and the turn; i = moves.len() when no turn succeeds.
RECURSIVE next_child(_, _, _)
RECURSIVE next_child_on(_, _, _, _)
next_child(call, i, king_was_in_check) ==
    IF i >= Len(call.moves)
    THEN [i |-> i, king_was_in_check |-> king_was_in_check, turn_data |-> NoTurn]
    ELSE next_child_on(call, i, king_was_in_check, turn_of(call, i))
next_child_on(call, i, king_was_in_check, turn_data) ==
    IF turn_data.status = "Ok"
    THEN [i |-> i, king_was_in_check |-> king_was_in_check, turn_data |-> turn_data]
    ELSE next_child(call, i + 1, king_was_in_check \/ turn_data.status = "Check")

\* the call once the child of a successful turn is called
calling_child(call, next) ==
    [call EXCEPT
        !.at = "await",
        !.i = next.i,
        !.king_was_in_check = next.king_was_in_check,
        !.children_searched = @ + 1]

\* variant: the child is called with the depth of its caller
child_call_same_depth(call, turn_data) ==
    Call(turn_data.new_board,
         child_parent_value(call.parent_value, turn_data.capture_value,
                            minimax_defaults(call.is_returning_max)[3]),
         Some(call.min_or_max), None, ~call.is_returning_max, call.current_depth,
         call.depth_limit, call.quiescence_search)

\* the call of minimax for the board of a successful turn
child_call(call, turn_data) ==
    Call(turn_data.new_board,
         child_parent_value(call.parent_value, turn_data.capture_value,
                            minimax_defaults(call.is_returning_max)[3]),
         Some(call.min_or_max), None, ~call.is_returning_max, call.current_depth + 1,
         call.depth_limit, call.quiescence_search)

\* the call once the value of its child is taken in (lines 190-194)
child_taken_in(call, branch_value) ==
    IF update_min_or_max(call.min_or_max, branch_value, call.is_returning_max)
    THEN [call EXCEPT !.min_or_max = branch_value, !.best_move = call.moves[call.i + 1]]
    ELSE call

\* the return of a call whose loop is over
result_of(call, king_was_in_check) ==
    minimax_result(call.board, call.parent_value, call.quiescence_search,
                   call.is_returning_max, call.children_searched, king_was_in_check,
                   call.min_or_max, call.best_move)

Top == stack[Len(stack)]
Callers == SubSeq(stack, 1, Len(stack) - 1)
Running == dpc = "searching" /\ stack # <<>>
driver_vars == <<root, dpc, depth_limit, pv_move, searched, result>>
turn_vars == <<board, ply, pc, turn, probe>>

\* the call on top returns to its caller
Return(value) ==
    /\ stack' = Callers
    /\ ret' = Some(value)

SearchInit ==
    /\ root \in SearchRoots
    /\ dpc = "loop"
    /\ depth_limit = 3
    /\ pv_move = None
    /\ stack = <<>>
    /\ ret = None
    /\ expired = FALSE
    /\ searched = <<>>
    /\ result = None
    /\ probe = NoProbe
    /\ board = root
    /\ ply = 0
    /\ pc = "off"
    /\ turn = NoTurn

\* gen_best_move calls minimax for the next depth limit
StartDepth ==
    /\ dpc = "loop"
    /\ depth_limit < MaxDepthLimit
    /\ stack' = <<Call(root, 0, None, pv_move, TRUE, 0, depth_limit, FALSE)>>
    /\ ret' = None
    /\ dpc' = "searching"
    /\ UNCHANGED <<root, depth_limit, pv_move, searched, result, expired, turn_vars>>

\* a call finds the budget exceeded on entry
ObserveDeadline ==
    /\ Running
    /\ Top.at = "entry"
    /\ expired' = TRUE
    /\ Return(TimeoutReturn)
    /\ UNCHANGED <<driver_vars, turn_vars>>

\* a quiescence call at its depth limit evaluates its board
EvaluateLeaf ==
    /\ Running
    /\ Top.at = "entry"
    /\ ~expired
    /\ Top.current_depth = Top.depth_limit
    /\ Top.quiescence_search
    /\ Return(MinimaxReturn(eval(Top.parent_value, Top.board), MoveInformation_new, FALSE))
    /\ UNCHANGED <<driver_vars, expired, turn_vars>>

\* a call at its depth limit returns the quiescence search of its board
StartQuiescence ==
    /\ Running
    /\ Top.at = "entry"
    /\ ~expired
    /\ Top.current_depth = Top.depth_limit
    /\ ~Top.quiescence_search
    /\ stack' = Append(Append(Callers, [Top EXCEPT !.at = "tail"]),
                       Call(Top.board, Top.parent_value, None, None, Top.is_returning_max,
                            0, QUIESCENCE_SEARCH_MAX_DEPTH, TRUE))
    /\ UNCHANGED <<driver_vars, ret, expired, turn_vars>>

\* the quiescence search returned: its result is the result of the call
ReturnQuiescence ==
    /\ Running
    /\ Top.at = "tail"
    /\ ret # None
    /\ Return(Unwrap(ret))
    /\ UNCHANGED <<driver_vars, expired, turn_vars>>

\* a call below its depth limit orders the moves of its board
BeginNode ==
    /\ Running
    /\ Top.at = "entry"
    /\ ~expired
    /\ Top.current_depth # Top.depth_limit
    /\ stack' = Append(Callers, begin_node(Top))
    /\ UNCHANGED <<driver_vars, ret, expired, turn_vars>>

\* the loop reaches a candidate whose turn succeeds and calls minimax on its board
CallChild ==
    /\ Running
    /\ Top.at = "loop"
    /\ \E next \in {next_child(Top, Top.i, Top.king_was_in_check)} :
           /\ next.turn_data # NoTurn
           /\ stack' = Append(Append(Callers, calling_child(Top, next)),
                              child_call(Top, next.turn_data))
    /\ ret' = None
    /\ UNCHANGED <<driver_vars, expired, turn_vars>>

\* the loop runs out of candidates: the call returns
LoopEnd ==
    /\ Running
    /\ Top.at = "loop"
    /\ \E next \in {next_child(Top, Top.i, Top.king_was_in_check)} :
           /\ next.turn_data = NoTurn
           /\ Return(result_of(Top, next.king_was_in_check))
    /\ UNCHANGED <<driver_vars, expired, turn_vars>>

\* the child timed out: the call returns the timeout as well
PropagateTimeout ==
    /\ Running
    /\ Top.at = "await"
    /\ ret # None
    /\ Unwrap(ret).timeout
    /\ Return(MinimaxReturn(0, MoveInformation_new, Unwrap(ret).timeout))
    /\ UNCHANGED <<driver_vars, expired, turn_vars>>

\* the child returned a value: it is taken in and the loop goes on
ChildReturned ==
    /\ Running
    /\ Top.at = "await"
    /\ ret # None
    /\ ~Unwrap(ret).timeout
    /\ \E call \in {child_taken_in(Top, Unwrap(ret).value)} :
           /\ ~prune(parent_min_max_of(call), call.min_or_max, call.is_returning_max)
           /\ stack' = Append(Callers, [call EXCEPT !.at = "loop", !.i = @ + 1])
    /\ ret' = None
    /\ UNCHANGED <<driver_vars, expired, turn_vars>>

\* the child returned a value that prunes the rest of the loop: the call returns
PruneBranch ==
    /\ Running
    /\ Top.at = "await"
    /\ ret # None
    /\ ~Unwrap(ret).timeout
    /\ \E call \in {child_taken_in(Top, Unwrap(ret).value)} :
           /\ prune(parent_min_max_of(call), call.min_or_max, call.is_returning_max)
           /\ Return(result_of(call, call.king_was_in_check))
    /\ UNCHANGED <<driver_vars, expired, turn_vars>>

\* what gen_best_move notes of one iteration of its loop
Searched(limit, returned) ==
    [depth_limit |-> limit,
     move_information |-> returned.move_information,
     timeout |-> returned.timeout]

\* the root call returned without a timeout: its move is the PV move of the next depth
DepthCompleted ==
    /\ dpc = "searching"
    /\ stack = <<>>
    /\ ret # None
    /\ ~Unwrap(ret).timeout
    /\ pv_move' = next_pv_move(pv_move, Unwrap(ret).move_information, Unwrap(ret).timeout)
    /\ searched' = Append(searched, Searched(depth_limit, Unwrap(ret)))
    /\ depth_limit' = depth_limit + 1
    /\ dpc' = "loop"
    /\ ret' = None
    /\ UNCHANGED <<root, result, stack, expired, turn_vars>>

\* the root call timed out: gen_best_move leaves its loop and returns
DepthTimedOut ==
    /\ dpc = "searching"
    /\ stack = <<>>
    /\ ret # None
    /\ Unwrap(ret).timeout
    /\ pv_move' = next_pv_move(pv_move, Unwrap(ret).move_information, Unwrap(ret).timeout)
    /\ searched' = Append(searched, Searched(depth_limit, Unwrap(ret)))
    /\ result' = Some(best_move_result(pv_move'))
    /\ dpc' = "done"
    /\ ret' = None
    /\ UNCHANGED <<root, depth_limit, stack, expired, turn_vars>>

\* the range of depth limits is exhausted: gen_best_move returns
RangeExhausted ==
    /\ dpc = "loop"
    /\ depth_limit = MaxDepthLimit
    /\ result' = Some(best_move_result(pv_move))
    /\ dpc' = "done"
    /\ UNCHANGED <<root, depth_limit, pv_move, searched, stack, ret, expired, turn_vars>>

SearchNext ==
    \/ StartDepth \/ ObserveDeadline \/ EvaluateLeaf \/ StartQuiescence \/ ReturnQuiescence
    \/ BeginNode \/ CallChild \/ LoopEnd \/ PropagateTimeout \/ ChildReturned \/ PruneBranch
    \/ DepthCompleted \/ DepthTimedOut \/ RangeExhausted

SearchSpec == SearchInit /\ [][SearchNext]_vars

(***************************************************************************)
(* generate_moves applied to one piece of a position.                      *)
(*                                                                         *)
(* The position is read with read_fen: the piece generate_moves is applied *)
(* to, pawns of either colour set on squares around it, and for a pawn the *)
(* en passant field.  Positions reached in play from Board::new are taken  *)
(* as they are.  probe holds the arguments of the call and, once it has    *)
(* returned, its output.                                                   *)
(***************************************************************************)

\* the number of pawns set around the piece
MaxBlockers == 2

ColOf(bit) == bit % 8

\* the squares whose index differs from s by one of the offsets; such a square
\* may lie across a board edge from s
Around(s, offsets) == {q \in Squares : (q - s) \in offsets}

SameRow(s, q) == RowOf(s) = RowOf(q)
SameCol(s, q) == ColOf(s) = ColOf(q)
SameDiagonal(s, q) == Abs(RowOf(s) - RowOf(q)) = Abs(ColOf(s) - ColOf(q))

\* the squares next to s on the board
Neighbours(s) ==
    {q \in Squares \ {s} : Abs(RowOf(s) - RowOf(q)) <= 1 /\ Abs(ColOf(s) - ColOf(q)) <= 1}

\* the squares of the lines a sliding piece of the given id moves along
LineSquares(piece_id, s) ==
    {q \in Squares \ {s} :
        \/ piece_id \in {3, 5} /\ SameDiagonal(s, q)
        \/ piece_id \in {4, 5} /\ (SameRow(s, q) \/ SameCol(s, q))}

\* the squares a pawn is set on around a piece of the given id on s
BlockerSquares(piece_id, s) ==
    IF piece_id = PAWN_ID THEN Around(s, {-16, -9, -8, -7, -1, 1, 7, 8, 9, 16})
    ELSE IF piece_id \in {3, 4, 5}
    THEN LineSquares(piece_id, s) \cup Around(s, {-9, -8, -7, -1, 1, 7, 8, 9})
    ELSE Around(s, {-17, -15, -10, -9, -8, -7, -6, -1, 1, 6, 7, 8, 9, 10, 15, 17})

\* the pieces generate_moves is applied to: <<bit, colour, piece id>>
PawnSubjects ==
    {<<s, "White", PAWN_ID>> : s \in {23, 24, 27, 31, 32, 48, 51, 55}}
        \cup {<<s, "Black", PAWN_ID>> : s \in {8, 12, 15, 31, 32, 36, 39, 40}}
KnightSubjects ==
    {<<s, "White", 2>> : s \in {0, 27, 39, 62}} \cup {<<s, "Black", 2>> : s \in {7, 24, 36, 57}}
SliderSubjects ==
    {<<s, "White", piece_id>> : s \in {0, 31, 36}, piece_id \in {3, 4, 5}}
        \cup {<<s, "Black", piece_id>> : s \in {7, 27, 60}, piece_id \in {3, 4, 5}}
GenSubjects == PawnSubjects \cup KnightSubjects \cup SliderSubjects

\* h4 a5: the a-pawn has made its double step and the h-pawn stands on the
\* next bit of the board, on the other edge
LineEdgePawns == <<<<48, 32>>, <<15, 31>>>>
\* a3 a5, h4: the same with the colours exchanged
LineEdgePawnsBlack == <<<<55, 47>>, <<15, 31>>, <<48, 32>>>>

\* the arguments of generate_moves for the piece of the side to move on piece_bit
GenCall(b, piece_bit) ==
    [function |-> "generate_moves",
     piece_bit |-> piece_bit,
     piece_id |-> read_piece_id(PerspectiveBoards_gen(b, b.piece_to_move).friendly_board,
                                piece_bit),
     piece_color |-> b.piece_to_move,
     output |-> None]

\* every piece on every square of a board with no other piece
LoneSubjects ==
    {<<read_fen(<<<<s, color, piece_id>>>>, color), s>> :
        s \in Squares, color \in {"White", "Black"}, piece_id \in 1 .. 5}

\* positions of play with the squares of the pieces generate_moves is applied to
PlayedSubjects ==
    {<<Board_new, s>> : s \in {48, 52, 57, 58, 59, 60, 63}}
        \cup {<<Play(Board_new, LineEdgePawns), 32>>}
        \cup {<<Play(Board_new, LineEdgePawnsBlack), 31>>}
        \cup {<<Play(Board_new, LineWhiteEnPassant), 27>>}
        \cup {<<Play(Board_new, LineBlackEnPassant), 34>>}

GenInit ==
    /\ \/ \E subject \in GenSubjects :
              /\ board = read_fen(<<subject>>, subject[2])
              /\ probe = GenCall(board, subject[1])
              /\ ply = 0
       \/ \E played \in PlayedSubjects \cup LoneSubjects :
              /\ board = played[1]
              /\ probe = GenCall(board, played[2])
              /\ ply = MaxBlockers
    /\ pc = "set up"
    /\ turn = NoTurn
    /\ root = Board_new
    /\ dpc = "off"
    /\ depth_limit = 3
    /\ pv_move = None
    /\ stack = <<>>
    /\ ret = None
    /\ expired = FALSE
    /\ searched = <<>>
    /\ result = None

gen_vars == <<turn, root, dpc, depth_limit, pv_move, stack, ret, expired, searched, result>>

Empty(b, q) ==
    read_piece_id(b.white_board, q) + read_piece_id(b.black_board, q) = 0

\* pawn characters for the given squares in the placement field
RECURSIVE SetPawns(_, _, _)
SetPawns(b, squares, color) ==
    IF squares = {} THEN b
    ELSE SetPawns(read_fen_piece(b, SetMin(squares), color, PAWN_ID),
                  squares \ {SetMin(squares)}, color)

\* one more pawn character in the placement field
PlaceBlocker ==
    /\ pc = "set up"
    /\ ply < MaxBlockers
    /\ \E q \in BlockerSquares(probe.piece_id, probe.piece_bit), color \in {"White", "Black"} :
           /\ Empty(board, q)
           /\ board' = read_fen_piece(board, q, color, PAWN_ID)
    /\ ply' = ply + 1
    /\ UNCHANGED <<pc, probe, gen_vars>>

\* pawns of the piece's colour on all the squares next to it
Surround ==
    /\ pc = "set up"
    /\ ply = 0
    /\ board' = SetPawns(board, Neighbours(probe.piece_bit), probe.piece_color)
    /\ ply' = MaxBlockers
    /\ UNCHANGED <<pc, probe, gen_vars>>

\* the en passant field of the FEN string
SetEnPassantTarget ==
    /\ pc = "set up"
    /\ probe.piece_id = PAWN_ID
    /\ board.en_passant_target_bit = None
    /\ \E t \in Around(probe.piece_bit, {-2, -1, 1, 2}) :
           board' = [board EXCEPT !.en_passant_target_bit = Some(t)]
    /\ UNCHANGED <<ply, pc, probe, gen_vars>>

GenerateMoves ==
    /\ pc = "set up"
    /\ probe' = [probe EXCEPT !.output =
                    Some(generate_moves(board, probe.piece_bit, probe.piece_id, probe.piece_color,
                                        PerspectiveBoards_gen(board, probe.piece_color)))]
    /\ pc' = "returned"
    /\ UNCHANGED <<board, ply, gen_vars>>

GenNext == PlaceBlocker \/ Surround \/ SetEnPassantTarget \/ GenerateMoves

GenSpec == GenInit /\ [][GenNext]_vars

(***************************************************************************)
(* get_potential_checking_pieces applied to a position.                    *)
(*                                                                         *)
(* The position is read with read_fen: a king, then either one enemy piece *)
(* and pawns between it and the king, or enemy pawns on whole lines        *)
(* through the king's square.                                              *)
(***************************************************************************)

\* the squares strictly between s and q when they share a row, column or diagonal
Between(s, q) ==
    {x \in Squares \ {s, q} :
        /\ \/ SameRow(s, q) /\ SameRow(s, x)
           \/ SameCol(s, q) /\ SameCol(s, x)
           \/ SameDiagonal(s, q) /\ SameDiagonal(s, x) /\ SameDiagonal(q, x)
        /\ Abs(RowOf(s) - RowOf(x)) + Abs(RowOf(x) - RowOf(q)) = Abs(RowOf(s) - RowOf(q))
        /\ Abs(ColOf(s) - ColOf(x)) + Abs(ColOf(x) - ColOf(q)) = Abs(ColOf(s) - ColOf(q))}

\* the squares one file and two ranks, or two files and one rank away from s
KnightSteps(s) ==
    {q \in Squares :
        {Abs(RowOf(s) - RowOf(q)), Abs(ColOf(s) - ColOf(q))} = {1, 2}}

\* the squares of the king's row, column, diagonals, knight steps and neighbours
AllKingLines(s) ==
    {q \in Squares \ {s} :
        \/ SameRow(s, q) \/ SameCol(s, q) \/ SameDiagonal(s, q)
        \/ {Abs(RowOf(s) - RowOf(q)), Abs(ColOf(s) - ColOf(q))} = {1, 2}}

\* the squares from which a piece may attack a king on s, by kind
KingLines(s) ==
    <<{q \in Squares \ {s} : SameRow(s, q)},
      {q \in Squares \ {s} : SameCol(s, q)},
      {q \in Squares \ {s} : SameDiagonal(s, q)},
      KnightSteps(s),
      Neighbours(s)>>

ShortlistCall(king_color) ==
    [function |-> "get_potential_checking_pieces", king_color |-> king_color, output |-> None]

CheckInit ==
    /\ \E s \in Squares, king_color \in {"White", "Black"} :
           /\ board = read_fen(<<<<s, king_color, KING_ID>>>>, king_color)
           /\ probe = ShortlistCall(king_color)
    /\ ply = 0
    /\ pc = "set up"
    /\ turn = NoTurn
    /\ root = Board_new
    /\ dpc = "off"
    /\ depth_limit = 3
    /\ pv_move = None
    /\ stack = <<>>
    /\ ret = None
    /\ expired = FALSE
    /\ searched = <<>>
    /\ result = None

\* one enemy piece of any kind on any square
PlaceEnemy ==
    /\ pc = "set up"
    /\ ply = 0
    /\ Occupancy(TeamBoard(board, Opponent(probe.king_color))) = {}
    /\ \E q \in Squares, piece_id \in 1 .. 6 :
           /\ Empty(board, q)
           /\ board' = read_fen_piece(board, q, Opponent(probe.king_color), piece_id)
    /\ ply' = 1
    /\ UNCHANGED <<pc, probe, gen_vars>>

\* the king squares for which pawns are set between the king and an enemy
\* piece: the corners, the centre and the kings' starting squares
ShieldedKingSquares == {0, 3, 7, 27, 36, 56, 59, 63}

\* a pawn of either colour between the king and an enemy bishop, rook or queen
PlaceBetween ==
    /\ pc = "set up"
    /\ ply >= 1
    /\ ply < MaxBlockers
    /\ KingBit(board, probe.king_color) \in ShieldedKingSquares
    /\ \E q \in Occupancy(TeamBoard(board, Opponent(probe.king_color))),
          color \in {"White", "Black"} :
           /\ read_piece_id(TeamBoard(board, Opponent(probe.king_color)), q) \in {3, 4, 5}
           /\ \E x \in Between(KingBit(board, probe.king_color), q) :
                  /\ Empty(board, x)
                  /\ board' = read_fen_piece(board, x, color, PAWN_ID)
    /\ ply' = ply + 1
    /\ UNCHANGED <<pc, probe, gen_vars>>

\* enemy pawns on all the squares of one kind around the king
Crowd ==
    /\ pc = "set up"
    /\ ply = 0
    /\ \E k \in 1 .. 5 :
           \E squares \in {{q \in KingLines(KingBit(board, probe.king_color))[k] : Empty(board, q)}} :
               /\ squares # {}
               /\ board' = SetPawns(board, squares, Opponent(probe.king_color))
    /\ UNCHANGED <<ply, pc, probe, gen_vars>>

GetPotentialCheckingPieces ==
    /\ pc = "set up"
    /\ probe' = [probe EXCEPT !.output =
                    Some(get_potential_checking_pieces(board, probe.king_color))]
    /\ pc' = "returned"
    /\ UNCHANGED <<board, ply, gen_vars>>

CheckNext == PlaceEnemy \/ PlaceBetween \/ Crowd \/ GetPotentialCheckingPieces

CheckSpec == CheckInit /\ [][CheckNext]_vars

(***************************************************************************)
(* Properties of turn application                                          *)
(***************************************************************************)

Returned == pc = "returned"
\* between two calls: board is an initial board or a board take_turn returned
Idle == pc = "idle"
Accepted == pc = "returned" /\ turn.result.status = "Ok"
Mover == turn.before.piece_to_move

\* the squares on which b holds a king of the given colour
KingSquares(b, color) == {sq \in Squares : read_piece_id(TeamBoard(b, color), sq) = KING_ID}

\* the squares of the pieces of colour by_color that stand on b and have one
\* of the squares targets in their generated move bitboard
PiecesReaching(b, by_color, targets) ==
    {bit \in Occupancy(TeamBoard(b, by_color)) :
        targets \cap
            generate_moves(b, bit, read_piece_id(TeamBoard(b, by_color), bit), by_color,
                           PerspectiveBoards_gen(b, by_color))[1] # {}}

\* the pieces of the other colour that attack a king of king_color on b
AttackersOf(b, king_color) ==
    PiecesReaching(b, Opponent(king_color), KingSquares(b, king_color))

C2_CheckOnlyIfAttacked ==
    (Returned /\ turn.result.status = "Check" /\ ~turn.only_use_captures)
        => AttackersOf(turn.result.new_board, Mover) # {}

\* take_turn answered Check to a move that is not a king move and captures a
\* piece of the reused shortlist, and nothing attacks the mover's king after it
C2_PhantomCheck ==
    /\ Returned
    /\ turn.result.status = "Check"
    /\ ~turn.only_use_captures
    /\ turn.piece_id # KING_ID
    /\ \E i \in 1 .. FixedVector_len(turn.potential_checking_pieces) :
           turn.potential_checking_pieces.internal_array[i] = turn.final_bit
    /\ AttackersOf(turn.result.new_board, Mover) = {}

WellFormed(b) ==
    /\ \A color \in {"White", "Black"} : \A sq \in Squares :
           read_piece_id(TeamBoard(b, color), sq) \in 0 .. 6
    /\ Occupancy(b.white_board) \cap Occupancy(b.black_board) = {}

\* C7: on every board reached by accepted moves the id read at every square
\* is in 0..6 for each colour, and no square is occupied by both colours.
C7_IdsAndColoursConsistent == Idle => WellFormed(board)

\* take_turn accepted a capture
C7_Witness ==
    /\ Accepted
    /\ turn.result.capture_value > 0
    /\ turn.ep_bits[2] = None

\* C8: on every board reached by accepted moves each colour has exactly one
\* square with the King id, and the cached king bit is that square.
OneKingEach(b) ==
    \A color \in {"White", "Black"} : KingSquares(b, color) = {KingBit(b, color)}

C8_OneKingAtCachedBit == Idle => OneKingEach(board)

\* take_turn accepted a king move
C8_Witness ==
    /\ Accepted
    /\ turn.piece_id = KING_ID
    /\ KingBit(turn.result.new_board, Mover) = turn.final_bit

\* the piece values of the claim, by piece id 1..6
StatedPieceValue == <<1, 3, 3, 5, 9, 0>>

\* the sum of the piece values over the occupied squares of a colour
RECURSIVE SumOver(_, _)
SumOver(squares, team_board) ==
    IF squares = {} THEN 0
    ELSE StatedPieceValue[read_piece_id(team_board, SetMin(squares))]
             + SumOver(squares \ {SetMin(squares)}, team_board)

PieceValueSum(b, color) == SumOver(Occupancy(TeamBoard(b, color)), TeamBoard(b, color))

MaterialConsistent(b) ==
    \A color \in {"White", "Black"} : Material(b, color) = PieceValueSum(b, color)

\* C9: on every board reached by accepted moves each material total is the
\* sum of the piece values of that colour, and the capture value take_turn
\* returns is the decrease of the opponent's total.
C9_MaterialIsSumOfValues ==
    /\ Idle => MaterialConsistent(board)
    /\ Accepted =>
           turn.result.capture_value =
               PieceValueSum(turn.before, Opponent(Mover))
                   - PieceValueSum(turn.result.new_board, Opponent(Mover))

\* take_turn accepted an en passant capture
C9_Witness ==
    /\ Accepted
    /\ turn.ep_bits[2] # None
    /\ turn.result.capture_value = 1

\* C10 as stated: an en passant target reported by generate_moves or stored
\* by take_turn is the square the pawn passed over, on row 5 after a White
\* double step and on row 2 after a Black one.
C10_TargetIsCrossedSquare ==
    /\ (Returned /\ turn.reported_ep_target # None) =>
           /\ Unwrap(turn.reported_ep_target) =
                  (IF Mover = "White" THEN turn.initial_bit - 8 ELSE turn.initial_bit + 8)
           /\ RowOf(Unwrap(turn.reported_ep_target)) = (IF Mover = "White" THEN 5 ELSE 2)
    /\ (Accepted /\ turn.result.new_board.en_passant_target_bit # None) =>
           RowOf(Unwrap(turn.result.new_board.en_passant_target_bit))
               = (IF Mover = "White" THEN 5 ELSE 2)

\* C10 amended: an en passant target reported by generate_moves or stored by
\* take_turn is the square the pawn lands on after its double step, on row 4
\* after a White double step and on row 3 after a Black one; take_turn
\* stores it exactly when the move is that double step.
C10_TargetIsLandingSquare ==
    /\ (Returned /\ turn.reported_ep_target # None) =>
           /\ Unwrap(turn.reported_ep_target) =
                  (IF Mover = "White" THEN turn.initial_bit - 16 ELSE turn.initial_bit + 16)
           /\ RowOf(Unwrap(turn.reported_ep_target)) = (IF Mover = "White" THEN 4 ELSE 3)
    /\ (Accepted /\ turn.result.new_board.en_passant_target_bit # None) =>
           /\ turn.result.new_board.en_passant_target_bit = Some(turn.final_bit)
           /\ turn.final_bit =
                  (IF Mover = "White" THEN turn.initial_bit - 16 ELSE turn.initial_bit + 16)
           /\ RowOf(turn.final_bit) = (IF Mover = "White" THEN 4 ELSE 3)

\* take_turn accepted a double step and stored its en passant target
C10_Witness ==
    /\ Accepted
    /\ turn.piece_id = PAWN_ID
    /\ turn.result.new_board.en_passant_target_bit # None

(***************************************************************************)
(* Properties of gen_best_move                                             *)
(***************************************************************************)

Done == dpc = "done"
\* the iterations of gen_best_move's loop whose root call did not time out
Completed == SelectSeq(searched, LAMBDA iteration : ~iteration.timeout)

\* to is a generated move of the piece of the side to move on from, and
\* take_turn accepts the move the way a search node hands it over
GeneratedAndAccepted(b, from, to, piece_id, gen) ==
    /\ bit_on(gen[1], to)
    /\ take_turn(b, piece_id, from, to, FALSE, get_ep_bits_for_turn(gen[2], gen[3], to),
                 get_potential_checking_pieces(b, b.piece_to_move)).status = "Ok"

LegalWithPiece(b, from, to, piece_id) ==
    /\ piece_id # 0
    /\ GeneratedAndAccepted(b, from, to, piece_id,
           generate_moves(b, from, piece_id, b.piece_to_move,
                          PerspectiveBoards_gen(b, b.piece_to_move)))

LegalMove(b, from, to) ==
    /\ from \in Squares
    /\ to \in Squares
    /\ LegalWithPiece(b, from, to, read_piece_id(TeamBoard(b, b.piece_to_move), from))

\* C3: whenever gen_best_move returns Ok((from, to)), from and to are squares,
\* from holds a piece of the side to move on the input board, to is in that
\* piece's generated move bitboard and take_turn accepts the move on the
\* input board.
C3_ReturnedMoveIsLegal ==
    (Done /\ Unwrap(result).ok)
        => LegalMove(root, Unwrap(result).move[1], Unwrap(result).move[2])

\* gen_best_move returned Ok((0, 0)) on a board whose side to move has no
\* piece on square 0 and no legal move at all
C3_PlaceholderReturned ==
    /\ Done
    /\ Unwrap(result) = [ok |-> TRUE, move |-> <<0, 0>>]
    /\ read_piece_id(TeamBoard(root, root.piece_to_move), 0) = 0
    /\ \A from \in Squares, to \in Squares : ~LegalMove(root, from, to)

\* the depth limits are searched in increasing order from 3 on, a timeout
\* ends the loop, and the move returned is the best move of the last depth
\* that completed
DepthsInOrder ==
    /\ \A k \in 1 .. Len(searched) :
           /\ searched[k].depth_limit = k + 2
           /\ searched[k].timeout => k = Len(searched) /\ Done
    /\ Running =>
           /\ stack[1].depth_limit = Len(searched) + 3
           /\ stack[1].current_depth = 0
           /\ ~stack[1].quiescence_search
    /\ (Done /\ Completed # <<>>) =>
           Unwrap(result) =
               [ok |-> TRUE,
                move |-> <<Completed[Len(Completed)].move_information.initial_bit,
                           Completed[Len(Completed)].move_information.final_bit>>]

\* the PV move changes only when a root call returns without a timeout, no
\* call of its depth having found the budget exceeded, and then to the move
\* the root call returned
PvOnlyFromCompletedDepth ==
    pv_move' # pv_move =>
        /\ stack = <<>>
        /\ ret # None
        /\ ~Unwrap(ret).timeout
        /\ ~expired
        /\ pv_move' = Some(Unwrap(ret).move_information)

\* once a call has found the budget exceeded, gen_best_move has returned or
\* the next step of the search can be taken
UnwindingGoesOn == (expired /\ ~Done) => ENABLED SearchNext

\* from the reading of the clock that finds the budget exceeded on: every
\* step is the return of the innermost call or the return of gen_best_move,
\* every return is the timeout sentinel, the calls in progress keep their
\* best value and best move, and the driver neither takes a move nor starts
\* a depth
NothingCommittedAfterDeadline ==
    expired' =>
        /\ ret' # None => Unwrap(ret') = TimeoutReturn
        /\ Len(stack') = Len(stack) - 1 \/ (stack = <<>> /\ stack' = <<>> /\ dpc' = "done")
        /\ \A k \in 1 .. Len(stack') :
               /\ stack'[k].min_or_max = stack[k].min_or_max
               /\ stack'[k].best_move = stack[k].best_move
        /\ pv_move' = pv_move
        /\ depth_limit' = depth_limit
        /\ dpc' \in {"searching", "done"}

\* C4: depths 3, 4, ... are searched in increasing order; the PV move is
\* replaced only by the best move of a depth that finished with no call
\* observing the deadline; once a call observes it, every ancestor returns
\* the timeout sentinel without updating its best value or move, the depth's
\* result is discarded, no deeper depth is started, and the move
\* gen_best_move returns is the best move of the last completed depth.
C4_TimeoutDiscardsDepth ==
    /\ [](DepthsInOrder /\ UnwindingGoesOn)
    /\ [][PvOnlyFromCompletedDepth /\ NothingCommittedAfterDeadline]_vars

\* depth 3 completed and depth 4 timed out below the root: the move of
\* depth 3 is returned
C4_Witness ==
    /\ Done
    /\ expired
    /\ Len(searched) = 2
    /\ ~searched[1].timeout
    /\ searched[2].timeout
    /\ Unwrap(result) =
           [ok |-> TRUE,
            move |-> <<searched[1].move_information.initial_bit,
                       searched[1].move_information.final_bit>>]
    /\ Unwrap(result).move # <<0, 0>>

\* C5: gen_best_move returns Err(()) exactly when the first depth searched,
\* depth 3, timed out; when a depth completed it returns Ok; its result is
\* Ok with two squares or Err(()), never a TurnError.
C5_ErrIffNoDepthCompleted ==
    Done =>
        /\ Unwrap(result) \in
               [ok : {TRUE}, move : (0 .. 255) \X (0 .. 255)]
                   \cup {[ok |-> FALSE, move |-> <<>>]}
        /\ ~Unwrap(result).ok <=> (searched[1].depth_limit = 3 /\ searched[1].timeout)
        /\ Completed # <<>> => Unwrap(result).ok

\* depth 3 timed out and gen_best_move returned Err(())
C5_Witness ==
    /\ Done
    /\ searched = <<Searched(3, TimeoutReturn)>>
    /\ Unwrap(result) = [ok |-> FALSE, move |-> <<>>]

(***************************************************************************)
(* Properties of generate_moves                                            *)
(***************************************************************************)

\* generate_moves has returned for the piece of probe
Generated == pc = "returned" /\ probe.function = "generate_moves"
GeneratedFor(piece_ids) == Generated /\ probe.piece_id \in piece_ids
Friends == Occupancy(TeamBoard(board, probe.piece_color))
Enemies == Occupancy(TeamBoard(board, Opponent(probe.piece_color)))
\* the move bitboard, the reported en passant target and the en passant pair
MoveBitboard == Unwrap(probe.output)[1]
ReportedTarget == Unwrap(probe.output)[2]
EnPassantPair == Unwrap(probe.output)[3]

\* the square a pawn of the given colour reaches with steps single steps forward
Forward(s, color, steps) == IF color = "White" THEN s - 8 * steps ELSE s + 8 * steps

\* the four conditions of an en passant capture by the pawn on s
EnPassantConditions(b, s, color) ==
    /\ b.en_passant_target_bit # None
    /\ Abs(ColOf(s) - ColOf(Unwrap(b.en_passant_target_bit))) <= 1
    /\ read_piece_id(TeamBoard(b, Opponent(color)), Unwrap(b.en_passant_target_bit)) = PAWN_ID
    /\ Forward(Unwrap(b.en_passant_target_bit), color, 1) \in Squares
    /\ Empty(b, Forward(Unwrap(b.en_passant_target_bit), color, 1))

\* C11: for a pawn of the side to move generate_moves returns an en passant
\* pair only when the board's target is set, the pawn's file differs from the
\* target's file by at most 1, an enemy pawn stands on the target and the
\* landing square is empty, and the pair is then (target, landing); in every
\* other case no pair is returned and the only empty squares in the move
\* bitboard are the pawn's own steps forward.
C11_EnPassantOnlyWhenAdjacent ==
    GeneratedFor({PAWN_ID}) =>
        IF EnPassantConditions(board, probe.piece_bit, probe.piece_color)
        THEN EnPassantPair # None =>
                 Unwrap(EnPassantPair) =
                     <<Unwrap(board.en_passant_target_bit),
                       Forward(Unwrap(board.en_passant_target_bit), probe.piece_color, 1)>>
        ELSE /\ EnPassantPair = None
             /\ (MoveBitboard \ (Friends \cup Enemies)) \subseteq
                    {Forward(probe.piece_bit, probe.piece_color, 1),
                     Forward(probe.piece_bit, probe.piece_color, 2)}

\* a position of play (both teams complete) in which the pawn on one edge is
\* given the en passant capture of the pawn on the other edge
C11_EnPassantAcrossTheEdge ==
    /\ GeneratedFor({PAWN_ID})
    /\ board.white_material = TEAM_MATERIAL_VALUE
    /\ board.black_material = TEAM_MATERIAL_VALUE
    /\ EnPassantPair # None
    /\ Abs(ColOf(probe.piece_bit) - ColOf(Unwrap(EnPassantPair)[1])) = 7
    /\ Unwrap(EnPassantPair)[2] \in MoveBitboard

\* C12: the move bitboard of a knight is the set of the squares at knight-step
\* offsets from its square that hold no friendly piece.
C12_KnightMovesAreKnightSteps ==
    GeneratedFor({2}) => MoveBitboard = KnightSteps(probe.piece_bit) \ Friends

\* a knight is given the squares next to it and none of its knight steps
C12_KnightMovesLikeKing ==
    /\ GeneratedFor({2})
    /\ Friends = {probe.piece_bit}
    /\ MoveBitboard = Neighbours(probe.piece_bit)
    /\ MoveBitboard \cap KnightSteps(probe.piece_bit) = {}

\* the reference ray walk from (row, col) in direction (dr, dc): the empty
\* squares up to the first occupied one, and that one when an enemy holds it
RECURSIVE RayWalk(_, _, _, _, _, _)
RayWalk(row, col, dr, dc, friends, enemies) ==
    IF ~(row + dr \in 0 .. 7 /\ col + dc \in 0 .. 7) THEN {}
    ELSE IF (row + dr) * 8 + col + dc \in friends THEN {}
    ELSE IF (row + dr) * 8 + col + dc \in enemies THEN {(row + dr) * 8 + col + dc}
    ELSE {(row + dr) * 8 + col + dc} \cup RayWalk(row + dr, col + dc, dr, dc, friends, enemies)

RayDirections(piece_id) ==
    (IF piece_id \in {3, 5} THEN {<<-1, -1>>, <<-1, 1>>, <<1, -1>>, <<1, 1>>} ELSE {})
        \cup (IF piece_id \in {4, 5} THEN {<<-1, 0>>, <<1, 0>>, <<0, -1>>, <<0, 1>>} ELSE {})

ReferenceSliderMoves(piece_id, s, friends, enemies) ==
    UNION {RayWalk(RowOf(s), ColOf(s), d[1], d[2], friends, enemies) : d \in RayDirections(piece_id)}

\* C13: the move bitboard of a bishop, rook or queen equals the reference ray
\* walk along the piece's directions: empty squares up to the first occupied
\* square, that square when an enemy holds it, nothing beyond it and nothing
\* across a board edge.
C13_SliderMovesAreRayWalk ==
    GeneratedFor({3, 4, 5}) =>
        MoveBitboard = ReferenceSliderMoves(probe.piece_id, probe.piece_bit, Friends, Enemies)

\* a queen away from the edges whose neighbours are all friendly
C13_SurroundedSlider ==
    /\ GeneratedFor({5})
    /\ Cardinality(Neighbours(probe.piece_bit)) = 8
    /\ Neighbours(probe.piece_bit) \subseteq Friends
    /\ MoveBitboard = {}

\* a slider with an enemy blocker that it may capture, a friendly blocker and
\* empty squares of its lines that it does not reach
C13_Witness ==
    /\ GeneratedFor({3, 4, 5})
    /\ MoveBitboard \cap Enemies # {}
    /\ Friends # {probe.piece_bit}
    /\ LineSquares(probe.piece_id, probe.piece_bit) \ (MoveBitboard \cup Friends \cup Enemies) # {}

\* the pawn on s stands where a pawn of its colour stands in the starting position
OnStartingSquare(s, color) ==
    read_piece_id(IF color = "White" THEN STARTING_WHITE_BOARD ELSE STARTING_BLACK_BOARD, s)
        = PAWN_ID

\* C14: a pawn's double step is in the move bitboard exactly when the pawn
\* stands on a starting square of a pawn of its colour and the square passed
\* over and the landing square are both empty; the single step is then
\* included and an en passant target is reported; otherwise neither the
\* double-step bit nor a target is reported.
C14_DoubleStepFromStartWhenFree ==
    GeneratedFor({PAWN_ID}) =>
        IF /\ OnStartingSquare(probe.piece_bit, probe.piece_color)
           /\ Empty(board, Forward(probe.piece_bit, probe.piece_color, 1))
           /\ Empty(board, Forward(probe.piece_bit, probe.piece_color, 2))
        THEN /\ Forward(probe.piece_bit, probe.piece_color, 2) \in MoveBitboard
             /\ Forward(probe.piece_bit, probe.piece_color, 1) \in MoveBitboard
             /\ ReportedTarget # None
        ELSE /\ Forward(probe.piece_bit, probe.piece_color, 2) \notin MoveBitboard
             /\ ReportedTarget = None

\* a pawn on its starting square whose double step is generated, and one
\* whose double step is cut off by a piece on the landing square
C14_Witness ==
    /\ GeneratedFor({PAWN_ID})
    /\ OnStartingSquare(probe.piece_bit, probe.piece_color)
    /\ \/ ReportedTarget # None
       \/ /\ ~Empty(board, Forward(probe.piece_bit, probe.piece_color, 2))
          /\ Forward(probe.piece_bit, probe.piece_color, 1) \in MoveBitboard

(***************************************************************************)
(* Properties of get_potential_checking_pieces                             *)
(***************************************************************************)

Shortlisted == pc = "returned" /\ probe.function = "get_potential_checking_pieces"
Shortlist == Unwrap(probe.output)
\* the squares the shortlist holds
ShortlistSquares == {Shortlist.internal_array[i] : i \in 1 .. FixedVector_len(Shortlist)}
\* the enemy pieces on the king's row, column, diagonals, knight steps and neighbours
EnemiesOnKingLines ==
    Occupancy(TeamBoard(board, Opponent(probe.king_color)))
        \cap AllKingLines(KingBit(board, probe.king_color))
\* the enemy pieces whose generated move bitboard includes the king's square
ShortlistAttackers ==
    PiecesReaching(board, Opponent(probe.king_color), {KingBit(board, probe.king_color)})
\* list holds each of the squares expected once and all the attackers
ExactSuperset(list, squares, expected, attackers) ==
    /\ ~list.panicked
    /\ squares = expected
    /\ FixedVector_len(list) = Cardinality(expected)
    /\ attackers \subseteq squares
AtMost16PerColour ==
    /\ Cardinality(Occupancy(board.white_board)) <= 16
    /\ Cardinality(Occupancy(board.black_board)) <= 16

\* C15: on a board with at most 16 pieces per colour the list returned by
\* get_potential_checking_pieces holds exactly the enemy-occupied squares on
\* the king's row, column, diagonals, knight-step squares and neighbours,
\* each once, blockers ignored; every enemy piece whose generated move
\* bitboard includes the king's square is among them.
C15_ShortlistIsSupersetOfAttackers ==
    (Shortlisted /\ AtMost16PerColour) =>
        ExactSuperset(Shortlist, ShortlistSquares, EnemiesOnKingLines, ShortlistAttackers)

\* an enemy slider behind a pawn is listed though it does not attack, next
\* to an enemy piece that does attack
C15_Witness ==
    /\ Shortlisted
    /\ AtMost16PerColour
    /\ ShortlistAttackers # {}
    /\ ShortlistSquares \ ShortlistAttackers # {}
    /\ \E q \in ShortlistSquares :
           /\ read_piece_id(TeamBoard(board, Opponent(probe.king_color)), q) \in {3, 4, 5}
           /\ \E x \in Between(KingBit(board, probe.king_color), q) : ~Empty(board, x)

\* C16: when the enemy pieces to enumerate are more than the cap of the list,
\* the call aborts; it never returns a list from which some were dropped.
C16_CapExceededAbortsLoudly ==
    Shortlisted => (Shortlist.panicked \/ EnemiesOnKingLines \subseteq ShortlistSquares)

\* a full list is returned without an abort, and an enemy pawn left out of it
\* attacks the king: is_king_in_check does not see the check
C16_AttackerSilentlyDropped ==
    /\ Shortlisted
    /\ ~Shortlist.panicked
    /\ FixedVector_len(Shortlist) = MAX_CHECKING_PIECES
    /\ ShortlistAttackers \ ShortlistSquares # {}
    /\ ~is_king_in_check(board, probe.king_color, Shortlist)

(***************************************************************************)
(* Properties of minimax                                                   *)
(***************************************************************************)

\* the step in which a call of the normal search returns from its loop
\* without having searched a child
ReturnsChildless ==
    /\ Running
    /\ Top.at = "loop"
    /\ ~Top.quiescence_search
    /\ Top.children_searched = 0
    /\ Len(stack') < Len(stack)

\* a candidate of the call on top was rejected with Check
RejectedWithCheck == next_child(Top, Top.i, Top.king_was_in_check).king_was_in_check

\* C17: a call of the normal search below its depth limit none of whose
\* candidates yields a successful turn and none of whose candidates is
\* rejected with Check returns eval(parent_value, board).
C17_CleanStalemateReturnsEval ==
    [][(ReturnsChildless /\ ~RejectedWithCheck)
           => Unwrap(ret').value = eval(Top.parent_value, Top.board)]_vars

\* the root call returned for a board without a candidate, and its value is
\* the initial min_or_max of a maximising call, not the evaluation
C17_StalemateReturnsInitialBound ==
    /\ dpc = "searching"
    /\ stack = <<>>
    /\ ret # None
    /\ ~Unwrap(ret).timeout
    /\ Candidates(root) = <<>>
    /\ Unwrap(ret).value = F32_MIN
    /\ Unwrap(ret).value # eval(0, root)

\* the checkmate value of a call: -5.0 at a maximising node, 5.0 at a minimising one
CheckmateValue(is_returning_max) ==
    IF is_returning_max THEN -CHECKMATE_WEIGHT ELSE CHECKMATE_WEIGHT

\* C18: a call of the normal search below its depth limit none of whose
\* candidates yields a successful turn returns the checkmate value exactly
\* when the king of the side to move is attacked on the board of the call.
C18_CheckmateValueIffInCheck ==
    [][ReturnsChildless
           => (Unwrap(ret').value = CheckmateValue(Top.is_returning_max)
                  <=> AttackersOf(Top.board, Top.board.piece_to_move) # {})]_vars

\* the root call returned the checkmate value for a board on which the king of
\* the side to move is not attacked: each of its candidates was rejected with Check
C18_StalemateScoredAsCheckmate ==
    /\ dpc = "searching"
    /\ stack = <<>>
    /\ ret # None
    /\ ~Unwrap(ret).timeout
    /\ Candidates(root) # <<>>
    /\ AttackersOf(root, root.piece_to_move) = {}
    /\ Unwrap(ret).value = CheckmateValue(TRUE)
    /\ Unwrap(ret).move_information = MoveInformation_new

\* the step in which the call on top calls minimax for the board of a successful turn
CallsChild ==
    /\ Running
    /\ Top.at = "loop"
    /\ Len(stack') = Len(stack) + 1

\* the capture value, as take_turn returned it, signed by the kind of the node
SignedCapture(is_returning_max, capture_value) ==
    IF is_returning_max THEN capture_value ELSE -capture_value

\* C19: the parent_value handed to the child of a successful turn with capture
\* value v is parent_value + v at a maximising node and parent_value - v at a
\* minimising node.
C19_ChildValueSignedByNodeKind ==
    [][CallsChild
           => stack'[Len(stack')].parent_value =
                  Top.parent_value
                  + SignedCapture(Top.is_returning_max,
                                  next_child(Top, Top.i, Top.king_was_in_check)
                                      .turn_data.capture_value)]_vars

\* a minimising node captured a piece and its child was handed
\* parent_value + v: the capture of the opponent counts for the root side
C19_OpponentCaptureAdded ==
    /\ Running
    /\ Len(stack) >= 2
    /\ Top.at = "entry"
    /\ \E caller \in {stack[Len(stack) - 1]} :
           /\ caller.at = "await"
           /\ ~caller.is_returning_max
           /\ Top.current_depth = caller.current_depth + 1
           /\ \E turn_data \in {turn_of(caller, caller.i)} :
                  /\ turn_data.status = "Ok"
                  /\ Top.board = turn_data.new_board
                  /\ turn_data.capture_value > 0
                  /\ Top.parent_value = caller.parent_value + turn_data.capture_value

(***************************************************************************)
(* Properties of the clocks                                                *)
(***************************************************************************)

\* the number of pieces of a colour on a board
PieceCount(b, color) == Cardinality(Occupancy(TeamBoard(b, color)))

\* the accepted turn took a piece of the other side off the board
PieceCaptured ==
    PieceCount(turn.result.new_board, Opponent(Mover)) < PieceCount(turn.before, Opponent(Mover))

\* the clocks and the side to move of after, for a turn applied to before
ClocksAdvanced(before, after, piece_id, captured) ==
    /\ after.fullmove_number =
           IF before.piece_to_move = "Black"
           THEN before.fullmove_number + 1 ELSE before.fullmove_number
    /\ after.halfmove_clock =
           IF piece_id = PAWN_ID \/ captured THEN 0 ELSE before.halfmove_clock + 1
    /\ after.piece_to_move = Opponent(before.piece_to_move)

\* C20: after a successful take_turn the fullmove number is one more when
\* Black moved and unchanged when White moved, the halfmove clock is 0 when
\* a pawn moved or a piece was captured and one more otherwise, and the side
\* to move is the other colour.
C20_ClocksFollowTheTurn ==
    Accepted => ClocksAdvanced(turn.before, turn.result.new_board, turn.piece_id, PieceCaptured)

\* take_turn accepted the capture of a king by a piece that is not a pawn and
\* the halfmove clock went on counting
C20_KingCaptureKeepsClock ==
    /\ Accepted
    /\ turn.piece_id # PAWN_ID
    /\ read_piece_id(TeamBoard(turn.before, Opponent(Mover)), turn.final_bit) = KING_ID
    /\ PieceCaptured
    /\ turn.result.capture_value = 0
    /\ turn.result.new_board.halfmove_clock = turn.before.halfmove_clock + 1

(***************************************************************************)
(* Properties of the en passant target                                     *)
(***************************************************************************)

\* the turn moved a pawn two rows ahead
DoubleStep ==
    /\ turn.piece_id = PAWN_ID
    /\ turn.final_bit = Forward(turn.initial_bit, Mover, 2)

\* the pawn of the given colour on t has just made its double step: it stands
\* two rows ahead of its starting row and the two squares behind it are empty
JustDoubleStepped(b, t, color) ==
    /\ read_piece_id(TeamBoard(b, color), t) = PAWN_ID
    /\ RowOf(t) = (IF color = "White" THEN 4 ELSE 3)
    /\ \A steps \in 1 .. 2 :
           /\ Empty(b, Forward(t, Opponent(color), steps))

\* C21: the board after a successful turn has the en passant target Some(t)
\* exactly when the turn was a pawn double step, t being the target
\* generate_moves reported for the pawn, and None after every other turn, en
\* passant captures included; an en passant capture is made only on a board
\* whose side not to move has just made the double step.
C21_TargetOnlyAfterDoubleStep ==
    /\ Accepted =>
           turn.result.new_board.en_passant_target_bit =
               (IF DoubleStep THEN turn.reported_ep_target ELSE None)
    /\ (Accepted /\ DoubleStep) => turn.reported_ep_target = Some(turn.final_bit)
    /\ (Returned /\ turn.ep_bits[2] # None) =>
           /\ turn.before.en_passant_target_bit = turn.ep_bits[2]
           /\ JustDoubleStepped(turn.before, Unwrap(turn.ep_bits[2]), Opponent(Mover))
    /\ (Idle /\ board.en_passant_target_bit # None) =>
           JustDoubleStepped(board, Unwrap(board.en_passant_target_bit),
                             Opponent(board.piece_to_move))

\* a double step was accepted on a board that offered an en passant capture:
\* the old target is gone and the new one is stored
C21_Witness ==
    /\ Accepted
    /\ DoubleStep
    /\ turn.before.en_passant_target_bit # None
    /\ turn.result.new_board.en_passant_target_bit = Some(turn.final_bit)
    /\ turn.before.en_passant_target_bit # turn.result.new_board.en_passant_target_bit

(***************************************************************************)
(* Properties of order_moves                                               *)
(***************************************************************************)

\* the pseudo-legal <<from, to>> pairs of the side to move: the set bits of the
\* move bitboards generate_moves returns for its pieces
PseudoLegalPairs(b) ==
    UNION {{<<from, to>> : to \in
               generate_moves(b, from, read_piece_id(TeamBoard(b, b.piece_to_move), from),
                              b.piece_to_move, PerspectiveBoards_gen(b, b.piece_to_move))[1]} :
           from \in Occupancy(TeamBoard(b, b.piece_to_move))}

PairOf(move_information) == <<move_information.initial_bit, move_information.final_bit>>

\* moves, the first len() entries of order_moves, hold each of the pairs once
\* and nothing else, with the PV move first when there is one
HoldsExactly(moves, pairs, pv) ==
    /\ Len(moves) = Cardinality(pairs)
    /\ {PairOf(moves[i]) : i \in 1 .. Len(moves)} = pairs
    /\ pv # None => (moves # <<>> /\ PairOf(moves[1]) = PairOf(Unwrap(pv)))

\* the call on top has ordered the moves of its board
Ordered == Running /\ Top.at \in {"loop", "await"}

\* C22: with the PV move gen_best_move supplies (the best move of the depth
\* completed before, or none) the first len() entries of order_moves hold each
\* pseudo-legal pair of the side to move exactly once and nothing else, len()
\* is the number of set bits of the move bitboards, and the PV move is first.
C22_CandidatesArePseudoLegalMoves ==
    Ordered => HoldsExactly(Top.moves, PseudoLegalPairs(Top.board), Top.pv_move)

\* the root call was handed the placeholder of a depth that found no move:
\* it is first among the candidates, on top of the pseudo-legal moves
C22_PlaceholderAmongCandidates ==
    /\ Ordered
    /\ Len(stack) = 1
    /\ Top.pv_move # None
    /\ PairOf(Unwrap(Top.pv_move)) = PairOf(MoveInformation_new)
    /\ PairOf(Top.moves[1]) = PairOf(MoveInformation_new)
    /\ PairOf(MoveInformation_new) \notin PseudoLegalPairs(Top.board)
    /\ Len(Top.moves) = Cardinality(PseudoLegalPairs(Top.board)) + 1

\* the score the ordering rule gives the move of the side to move from -> to
StatedScore(b, from, to) ==
    IF read_piece_id(TeamBoard(b, Opponent(b.piece_to_move)), to) = 0
    THEN -10
    ELSE StatedPieceValue[read_piece_id(TeamBoard(b, Opponent(b.piece_to_move)), to)]
             - StatedPieceValue[read_piece_id(TeamBoard(b, b.piece_to_move), from)]

\* i comes before j in the enumeration: ascending from-square, then to-square
EnumeratedBefore(m, n) ==
    \/ m.initial_bit < n.initial_bit
    \/ m.initial_bit = n.initial_bit /\ m.final_bit < n.final_bit

\* moves, the first len() entries of order_moves for b and pv, are scored by
\* the rule, sorted by descending score with ties in enumeration order, and
\* none of them is a placeholder of the backing array
ScoredAndSorted(b, pv, moves) ==
    /\ \A i \in 1 .. Len(moves) :
           /\ moves[i] # MoveInformation_new
           /\ (pv = None \/ i > 1) =>
                  moves[i].move_score = StatedScore(b, moves[i].initial_bit, moves[i].final_bit)
    /\ \A i, j \in 1 .. Len(moves) :
           i < j =>
               /\ moves[i].move_score >= moves[j].move_score
               /\ (moves[i].move_score = moves[j].move_score /\ (pv = None \/ i > 1))
                      => EnumeratedBefore(moves[i], moves[j])

\* the PV moves a caller may hand to order_moves for b: none, or one of its candidates
PvMoves(cands) == {None} \cup {Some(cands[i]) : i \in 1 .. Len(cands)}

\* C23: every candidate of order_moves but the PV move has score -10 when its
\* destination is empty on the enemy board and enemy piece value minus
\* moving piece value otherwise; the first len() entries are in non-increasing
\* score order, ties in enumeration order, and none is a placeholder.
C23_ScoredAndSortedByCapture ==
    Idle => \A pv \in PvMoves(Candidates(board)) :
                ScoredAndSorted(board, pv,
                    Filled(order_moves(board, pv,
                                       PerspectiveBoards_gen(board, board.piece_to_move))))

\* the candidate take_turn was called with captures a king, and order_moves
\* gave it the score of a move to an empty square
C23_KingCaptureScoredAsQuiet ==
    /\ Returned
    /\ read_piece_id(TeamBoard(turn.before, Opponent(Mover)), turn.final_bit) = KING_ID
    /\ \E m \in {Candidates(turn.before)[i] : i \in 1 .. Len(Candidates(turn.before))} :
           /\ PairOf(m) = <<turn.initial_bit, turn.final_bit>>
           /\ m.move_score = NON_CAPTURE_WEIGHT
           /\ m.move_score # StatedScore(turn.before, turn.initial_bit, turn.final_bit)

(***************************************************************************)
(* Termination of minimax                                                  *)
(***************************************************************************)

\* the number of pieces on a board
PiecesOn(b) == PieceCount(b, "White") + PieceCount(b, "Black")

\* The calls in progress form one line of play: the calls of the normal
\* search at depths 0, 1, ... up to the depth limit, then, below a call at the
\* depth limit, the calls of one quiescence search at depths 0 to 3, each on
\* the board of a capture made on the board of its caller.
LineOfPlay ==
    \A k \in 1 .. Len(stack) :
        /\ stack[k].current_depth <= stack[k].depth_limit
        /\ stack[k].i <= Len(stack[k].moves)
        /\ Len(stack[k].moves) <= MAX_TEAM_MOVES
        /\ ~stack[k].quiescence_search =>
               /\ stack[k].current_depth = k - 1
               /\ stack[k].depth_limit = stack[1].depth_limit
               /\ stack[k].at = "tail" => stack[k].current_depth = stack[k].depth_limit
               /\ (stack[k].at = "tail" /\ k = Len(stack)) => ret # None
               /\ (k < Len(stack) /\ stack[k].current_depth = stack[k].depth_limit)
                      => stack[k].at = "tail"
        /\ stack[k].quiescence_search =>
               /\ k > 1
               /\ stack[k].depth_limit = QUIESCENCE_SEARCH_MAX_DEPTH
               /\ stack[k].at # "tail"
               /\ stack[k].current_depth = 0 =>
                      /\ stack[k - 1].at = "tail"
                      /\ stack[k].board = stack[k - 1].board
               /\ stack[k].current_depth > 0 =>
                      /\ stack[k - 1].quiescence_search
                      /\ stack[k - 1].at = "await"
                      /\ stack[k].current_depth = stack[k - 1].current_depth + 1
                      /\ PiecesOn(stack[k].board) = PiecesOn(stack[k - 1].board) - 1
        /\ k <= stack[1].depth_limit + QUIESCENCE_SEARCH_MAX_DEPTH + 2

\* how far a call has got: its loop index, and within an iteration whether it
\* is about to try the candidate, waits for its child or holds the child's result
Progress(call, returned) ==
    CASE call.at = "entry" -> 0
      [] call.at = "tail" -> IF returned THEN 2 ELSE 1
      [] call.at = "loop" -> 3 * call.i + 1
      [] call.at = "await" -> 3 * call.i + (IF returned THEN 3 ELSE 2)

\* the progress of the calls in progress, the root call first
ProgressOf(calls, returned) ==
    [k \in 1 .. Len(calls) |-> Progress(calls[k], k = Len(calls) /\ returned # None)]

\* m comes before n in the lexicographic order
LexLess(m, n) ==
    \E k \in 1 .. Len(n) :
        /\ k - 1 <= Len(m)
        /\ \A j \in 1 .. k - 1 : m[j] = n[j]
        /\ k > Len(m) \/ m[k] < n[k]

\* a step of the search before the deadline returns the root call or takes
\* the calls in progress further in the lexicographic order of their progress
SearchAdvances ==
    (Running /\ ~expired') =>
        \/ stack' = <<>> /\ ret' # None
        \/ LexLess(ProgressOf(stack, ret), ProgressOf(stack', ret'))

\* a quiescence call at its depth limit, or one that found no capture,
\* returns the evaluation of its board
QuiescenceEndsInEval ==
    (Running /\ ~expired' /\ Top.quiescence_search
        /\ (Top.current_depth = Top.depth_limit \/ (Top.at = "loop" /\ Top.children_searched = 0))
        /\ Len(stack') # Len(stack) + 1) =>
        /\ stack' = Callers
        /\ ret' = Some(MinimaxReturn(eval(Top.parent_value, Top.board), MoveInformation_new, FALSE))

\* The search is never stuck: a call on entry or in its loop always has its
\* next statement to run, so the only call that could wait for ever is one
\* that waits for its callee, and it is on top only with the callee's result.
CalleeHasReturned ==
    (Running /\ Top.at \in {"await", "tail"}) => ret # None

\* C24: while the deadline is not reached a call of minimax with depth limit
\* d terminates: the calls in progress are at most d plies of normal search
\* followed by at most 3 plies of quiescence search, every quiescence ply
\* captures a piece, a quiescence call at its depth limit or without a
\* capture returns the evaluation, every step takes the search further in a
\* bounded order, and the search is never stuck.
C24_SearchTerminates ==
    /\ [](LineOfPlay /\ CalleeHasReturned)
    /\ [][SearchAdvances /\ QuiescenceEndsInEval]_vars

\* a quiescence search is at its depth limit below a normal search at its
\* depth limit: three captures in a row were applied
C24_Witness ==
    /\ Running
    /\ ~expired
    /\ Top.quiescence_search
    /\ Top.at = "entry"
    /\ Top.current_depth = QUIESCENCE_SEARCH_MAX_DEPTH
    /\ Len(stack) = stack[1].depth_limit + QUIESCENCE_SEARCH_MAX_DEPTH + 2


(***************************************************************************)
(* minimax on a game tree.                                                 *)
(*                                                                         *)
(* The loop of minimax over the children of a node, with the board, the    *)
(* move generator and the evaluation taken away: a node is either a leaf   *)
(* with the value the call on it returns, or it has the children the       *)
(* accepted turns lead to, in the order of the candidates.  The tree is    *)
(* built leaf by leaf; probe holds it and, once the two searches have      *)
(* returned, their outputs.                                                *)
(***************************************************************************)

\* the number of nodes of a tree
MaxNodes == 7

\* the values a call on a leaf returns: evaluations, and the initial bounds
\* a node without a candidate returns
LeafValues == {F32_MIN, 0, EvalScale, F32_MAX}

Leaf(value) == [value |-> value, children |-> <<>>]

RECURSIVE TreePaths(_)
TreePaths(tree) ==
    {<<>>} \cup UNION {{<<i>> \o path : path \in TreePaths(tree.children[i])} :
                          i \in 1 .. Len(tree.children)}

RECURSIVE TreeDepth(_)
TreeDepth(tree) ==
    IF tree.children = <<>> THEN 0
    ELSE 1 + SetMax({TreeDepth(tree.children[i]) : i \in 1 .. Len(tree.children)})

\* the tree with one more leaf as the last child of the node at path
RECURSIVE WithLeaf(_, _, _)
WithLeaf(tree, path, value) ==
    IF path = <<>> THEN [value |-> 0, children |-> Append(tree.children, Leaf(value))]
    ELSE [tree EXCEPT !.children[path[1]] = WithLeaf(@, Tail(path), value)]

\* <<value, index of the best child or 0, leaves visited>>: the return of
\* minimax on a node, and of its loop from the i-th child on
RECURSIVE minimax_on_tree(_, _, _, _)
RECURSIVE minimax_children(_, _, _, _, _, _, _, _)
minimax_on_tree(tree, parent_min_max, is_returning_max, pruning) ==
    IF tree.children = <<>> THEN <<tree.value, 0, 1>>
    ELSE minimax_children(tree.children, 1, minimax_defaults(is_returning_max)[1], 0, 0,
                          IF parent_min_max = None
                          THEN minimax_defaults(is_returning_max)[2]
                          ELSE Unwrap(parent_min_max),
                          is_returning_max, pruning)
minimax_children(children, i, min_or_max, best_move, visited, parent_min_max, is_returning_max, pruning) ==
    IF i > Len(children) THEN <<min_or_max, best_move, visited>>
    ELSE LET branch == minimax_on_tree(children[i], Some(min_or_max), ~is_returning_max, pruning)
             updated == update_min_or_max(min_or_max, branch[1], is_returning_max)
             new_min_or_max == IF updated THEN branch[1] ELSE min_or_max
             new_best_move == IF updated THEN i ELSE best_move
         IN  IF pruning /\ prune(parent_min_max, new_min_or_max, is_returning_max)
             THEN <<new_min_or_max, new_best_move, visited + branch[3]>>
             ELSE minimax_children(children, i + 1, new_min_or_max, new_best_move,
                                   visited + branch[3], parent_min_max, is_returning_max,
                                   pruning)

TreeCall(tree, is_returning_max) ==
    [function |-> "minimax", tree |-> tree, nodes |-> Cardinality(TreePaths(tree)),
     is_returning_max |-> is_returning_max, output |-> None]

TreeInit ==
    /\ \E value \in LeafValues, is_returning_max \in BOOLEAN :
           probe = TreeCall(Leaf(value), is_returning_max)
    /\ board = Board_new
    /\ ply = 0
    /\ pc = "set up"
    /\ turn = NoTurn
    /\ root = Board_new
    /\ dpc = "off"
    /\ depth_limit = 3
    /\ pv_move = None
    /\ stack = <<>>
    /\ ret = None
    /\ expired = FALSE
    /\ searched = <<>>
    /\ result = None

\* one more accepted turn at a node, leading to a leaf
AddLeaf ==
    /\ pc = "set up"
    /\ probe.nodes < MaxNodes
    /\ \E path \in TreePaths(probe.tree), value \in LeafValues :
           probe' = [probe EXCEPT !.tree = WithLeaf(probe.tree, path, value),
                                  !.nodes = probe.nodes + 1]
    /\ UNCHANGED <<board, ply, pc, gen_vars>>

\* the search with the pruning rule and the search without it
SearchTree ==
    /\ pc = "set up"
    /\ probe' = [probe EXCEPT !.output =
                    Some([pruned |-> minimax_on_tree(probe.tree, None, probe.is_returning_max, TRUE),
                          unpruned |-> minimax_on_tree(probe.tree, None, probe.is_returning_max, FALSE)])]
    /\ pc' = "returned"
    /\ UNCHANGED <<board, ply, gen_vars>>

TreeNext == AddLeaf \/ SearchTree

TreeSpec == TreeInit /\ [][TreeNext]_vars

\* C25: on every game tree the search with the pruning rule returns the value
\* and the best move at the root that the search without pruning returns.
C25_PruningKeepsValueAndMove ==
    (probe.function = "minimax" /\ probe.output # None) =>
        \E output \in probe.output :
            /\ output.pruned[1] = output.unpruned[1]
            /\ output.pruned[2] = output.unpruned[2]

\* a tree three plies deep on which pruning left leaves out and the best move
\* at the root is not the first one
C25_Witness ==
    /\ probe.function = "minimax"
    /\ probe.output # None
    /\ TreeDepth(probe.tree) >= 3
    /\ \E output \in probe.output :
           /\ output.pruned[3] < output.unpruned[3]
           /\ output.pruned[2] > 1


(***************************************************************************)
(* shift_direction_bitboard applied to a template and a square.            *)
(***************************************************************************)

LineTemplates == {DIAGONAL_RIGHT, DIAGONAL_LEFT, VERTICAL_LINE, HORIZONTAL_LINE}
StepTemplates ==
    {KNIGHT_MOVES, KING_MOVES, WHITE_PAWN_MOVES, WHITE_PAWN_CAPTURE_MOVES, BLACK_PAWN_MOVES,
     BLACK_PAWN_CAPTURE_MOVES, WHITE_PAWN_DOUBLE_MOVES, BLACK_PAWN_DOUBLE_MOVES}

ShiftInit ==
    /\ \E direction_bitboard \in LineTemplates \cup StepTemplates, piece_bit \in Squares :
           probe = [function |-> "shift_direction_bitboard",
                    direction_bitboard |-> direction_bitboard,
                    piece_bit |-> piece_bit,
                    output |-> None]
    /\ board = Board_new
    /\ ply = 0
    /\ pc = "set up"
    /\ turn = NoTurn
    /\ root = Board_new
    /\ dpc = "off"
    /\ depth_limit = 3
    /\ pv_move = None
    /\ stack = <<>>
    /\ ret = None
    /\ expired = FALSE
    /\ searched = <<>>
    /\ result = None

ShiftDirectionBitboard ==
    /\ pc = "set up"
    /\ probe' = [probe EXCEPT !.output =
                    Some(shift_direction_bitboard(probe.piece_bit,
                                                  get_piece_coordinates(probe.piece_bit),
                                                  probe.direction_bitboard))]
    /\ pc' = "returned"
    /\ UNCHANGED <<board, ply, gen_vars>>

ShiftSpec == ShiftInit /\ [][ShiftDirectionBitboard]_vars

\* the squares of the board reached from s by the steps that lead from the
\* origin of the template to the squares of its pattern
Translated(direction_bitboard, s) ==
    {q \in Squares : \E p \in direction_bitboard.bitboard :
        /\ ColOf(q) - ColOf(s) = ColOf(p) - ColOf(direction_bitboard.origin_bit)
        /\ RowOf(q) - RowOf(s) = RowOf(p) - RowOf(direction_bitboard.origin_bit)}

\* the line of the template's direction through s, from edge to edge
LineThrough(direction_bitboard, s) ==
    {q \in Squares :
        \/ direction_bitboard = VERTICAL_LINE /\ ColOf(q) = ColOf(s)
        \/ direction_bitboard = HORIZONTAL_LINE /\ RowOf(q) = RowOf(s)
        \/ direction_bitboard = DIAGONAL_RIGHT /\ ColOf(q) - RowOf(q) = ColOf(s) - RowOf(s)
        \/ direction_bitboard = DIAGONAL_LEFT /\ ColOf(q) + RowOf(q) = ColOf(s) + RowOf(s)}

\* C26: for every template and every square, shift_direction_bitboard returns
\* the whole line through the square for the four line templates and the
\* pattern moved from the origin to the square, without the squares off the
\* board, for the step templates; at the origin the pattern is returned as
\* it is.
C26_TemplateAlignedWithSquare ==
    (probe.function = "shift_direction_bitboard" /\ probe.output # None) =>
        /\ probe.direction_bitboard \in LineTemplates =>
               probe.output = Some(LineThrough(probe.direction_bitboard, probe.piece_bit))
        /\ probe.direction_bitboard \in StepTemplates =>
               probe.output = Some(Translated(probe.direction_bitboard, probe.piece_bit))
        /\ probe.piece_bit = probe.direction_bitboard.origin_bit =>
               probe.output = Some(probe.direction_bitboard.bitboard)

\* the knight template aligned with a square next to a corner: six of its
\* eight steps leave the board
C26_Witness ==
    /\ probe.function = "shift_direction_bitboard"
    /\ probe.direction_bitboard = KNIGHT_MOVES
    /\ probe.piece_bit = 62
    /\ probe.output = Some({45, 47, 52})


(***************************************************************************)
(* shift_bytes applied to a word and a shift.                              *)
(*                                                                         *)
(* The words are those with few bits set and those with few bits clear.    *)
(***************************************************************************)

\* the number of bits set in a sparse word
MaxWordBits == 2

RECURSIVE WordsOf(_)
WordsOf(bits) ==
    IF bits = 0 THEN {{}}
    ELSE LET fewer == WordsOf(bits - 1)
         IN  fewer \cup {word \cup {bit} : word \in fewer, bit \in Squares}

Words == WordsOf(MaxWordBits) \cup {Squares \ word : word \in WordsOf(MaxWordBits - 1)}

ShiftBytesInit ==
    /\ \E num \in Words, shift \in -7 .. 7 :
           probe = [function |-> "shift_bytes", num |-> num, shift |-> shift, output |-> None]
    /\ board = Board_new
    /\ ply = 0
    /\ pc = "set up"
    /\ turn = NoTurn
    /\ root = Board_new
    /\ dpc = "off"
    /\ depth_limit = 3
    /\ pv_move = None
    /\ stack = <<>>
    /\ ret = None
    /\ expired = FALSE
    /\ searched = <<>>
    /\ result = None

ShiftBytes ==
    /\ pc = "set up"
    /\ probe' = [probe EXCEPT !.output = Some(shift_bytes(probe.num, probe.shift))]
    /\ pc' = "returned"
    /\ UNCHANGED <<board, ply, gen_vars>>

ShiftBytesSpec == ShiftBytesInit /\ [][ShiftBytes]_vars

\* the number a set of bit indices stands for
RECURSIVE ValueOf(_)
ValueOf(bits) ==
    IF bits = {} THEN 0 ELSE 2 ^ SetMin(bits) + ValueOf(bits \ {SetMin(bits)})

\* byte k of a word, as a number
ByteOf(num, k) == ValueOf(isolate_byte(num, k))

\* C27: for every word, every shift from -7 to 7 and every byte lane, the
\* lane of shift_bytes(word, shift) is the lane of the word shifted right by
\* the shift, or left by its absolute value when it is negative, and cut to
\* 8 bits.
C27_LanesShiftOnTheirOwn ==
    (probe.function = "shift_bytes" /\ probe.output # None) =>
        \E output \in probe.output : \A k \in 0 .. 7 :
            ByteOf(output, k) =
                IF probe.shift < 0
                THEN (ByteOf(probe.num, k) * 2 ^ (-probe.shift)) % 256
                ELSE ByteOf(probe.num, k) \div (2 ^ probe.shift)

\* a bit next to a lane boundary is shifted towards the boundary and lost,
\* and the bit of the lane beyond it stays in its own lane
C27_Witness ==
    /\ probe.function = "shift_bytes"
    /\ probe.num = {7, 8}
    /\ probe.shift = -1
    /\ probe.output = Some({9})


(***************************************************************************)
(* bits_on::<L> applied to a word with at most L bits set.                 *)
(***************************************************************************)

\* the capacities a word is enumerated with: just enough, one to spare, and
\* the capacities of a team and of the board
CapacitiesFor(num) ==
    {L \in {Cardinality(num), Cardinality(num) + 1, 16, 64} : Cardinality(num) <= L}

BitsOnInit ==
    /\ \E num \in Words, placeholder_num \in {0, 255} : \E L \in CapacitiesFor(num) :
           probe = [function |-> "bits_on", num |-> num, placeholder_num |-> placeholder_num,
                    L |-> L, output |-> None]
    /\ board = Board_new
    /\ ply = 0
    /\ pc = "set up"
    /\ turn = NoTurn
    /\ root = Board_new
    /\ dpc = "off"
    /\ depth_limit = 3
    /\ pv_move = None
    /\ stack = <<>>
    /\ ret = None
    /\ expired = FALSE
    /\ searched = <<>>
    /\ result = None

BitsOn ==
    /\ pc = "set up"
    /\ probe' = [probe EXCEPT !.output =
                    Some(bits_on(probe.num, probe.placeholder_num, probe.L))]
    /\ pc' = "returned"
    /\ UNCHANGED <<board, ply, gen_vars>>

BitsOnSpec == BitsOnInit /\ [][BitsOn]_vars

\* C28: for a word with at most L bits set, bits_on::<L> returns a list as
\* long as the number of set bits, whose entries are the indices of the set
\* bits in strictly ascending order, bit 63 included, and whose other slots
\* hold the placeholder.
C28_SetBitsAscendingThenPlaceholders ==
    (probe.function = "bits_on" /\ probe.output # None) =>
        \E output \in probe.output :
            /\ ~output.panicked
            /\ Len(output.internal_array) = probe.L
            /\ FixedVector_len(output) = Cardinality(probe.num)
            /\ {output.internal_array[i] : i \in 1 .. FixedVector_len(output)} = probe.num
            /\ \A i \in 1 .. FixedVector_len(output) - 1 :
                   output.internal_array[i] < output.internal_array[i + 1]
            /\ \A i \in FixedVector_len(output) + 1 .. probe.L :
                   output.internal_array[i] = probe.placeholder_num

\* a word with bit 63 and bit 0 set, enumerated with one slot to spare
C28_Witness ==
    /\ probe.function = "bits_on"
    /\ probe.num = {0, 63}
    /\ probe.L = 3
    /\ probe.placeholder_num = 255
    /\ probe.output # None
    /\ \E output \in probe.output : output.internal_array = <<0, 63, 255>>


(***************************************************************************)
(* A FixedVector under a sequence of push and pop.                         *)
(*                                                                         *)
(* probe holds the vector and the calls made on it so far, each with what  *)
(* it returned and the length before it.  No call is made after an abort.  *)
(***************************************************************************)

\* the number of calls made on a vector
MaxCalls == 5

VecData == {10, 20, 30}

VecInit ==
    /\ \E L \in 1 .. 3 :
           probe = [function |-> "FixedVector", vector |-> FixedVector_new(0, L), calls |-> <<>>]
    /\ board = Board_new
    /\ ply = 0
    /\ pc = "set up"
    /\ turn = NoTurn
    /\ root = Board_new
    /\ dpc = "off"
    /\ depth_limit = 3
    /\ pv_move = None
    /\ stack = <<>>
    /\ ret = None
    /\ expired = FALSE
    /\ searched = <<>>
    /\ result = None

Push ==
    /\ probe.function = "FixedVector"
    /\ Len(probe.calls) < MaxCalls
    /\ ~probe.vector.panicked
    /\ \E data \in VecData :
           probe' = [probe EXCEPT
                        !.vector = FixedVector_push(probe.vector, data),
                        !.calls = Append(@, [method |-> "push", data |-> data, output |-> None,
                                             length |-> FixedVector_len(probe.vector)])]
    /\ UNCHANGED <<board, ply, pc, gen_vars>>

Pop ==
    /\ probe.function = "FixedVector"
    /\ Len(probe.calls) < MaxCalls
    /\ ~probe.vector.panicked
    /\ \E popped \in {FixedVector_pop(probe.vector)} :
           probe' = [probe EXCEPT
                        !.vector = popped[1],
                        !.calls = Append(@, [method |-> "pop", data |-> 0, output |-> popped[2],
                                             length |-> FixedVector_len(probe.vector)])]
    /\ UNCHANGED <<board, ply, pc, gen_vars>>

VecNext == Push \/ Pop

VecSpec == VecInit /\ [][VecNext]_vars

\* the calls of the given method among the first n calls
CallsOf(calls, method) == {i \in 1 .. Len(calls) : calls[i].method = method}

\* C30: a FixedVector is a stack: pop right after push(x) on a vector that
\* was not full returns Some(x) and leaves the length as before the push;
\* the length is the number of pushes minus the number of pops that returned
\* an element; pop on an empty vector returns None and does not abort.
C30_PushPopIsAStack ==
    probe.function = "FixedVector" =>
        /\ \A i \in 2 .. Len(probe.calls) :
               (/\ probe.calls[i].method = "pop"
                /\ probe.calls[i - 1].method = "push"
                /\ probe.calls[i - 1].length < Len(probe.vector.internal_array)) =>
                   /\ probe.calls[i].output = Some(probe.calls[i - 1].data)
                   /\ (i = Len(probe.calls)) =>
                          /\ ~probe.vector.panicked
                          /\ FixedVector_len(probe.vector) = probe.calls[i - 1].length
        /\ ~probe.vector.panicked =>
               FixedVector_len(probe.vector) =
                   Cardinality(CallsOf(probe.calls, "push"))
                       - Cardinality({i \in CallsOf(probe.calls, "pop") :
                                         probe.calls[i].output # None})
        /\ \A i \in CallsOf(probe.calls, "pop") :
               probe.calls[i].length = 0 =>
                   /\ probe.calls[i].output = None
                   /\ (i = Len(probe.calls)) => ~probe.vector.panicked

\* push(10), push(20), pop: the pop returns the element below the one pushed
\* last
C30_PopReturnsElementBelow ==
    /\ probe.function = "FixedVector"
    /\ Len(probe.calls) = 3
    /\ probe.calls[1].method = "push" /\ probe.calls[1].data = 10
    /\ probe.calls[2].method = "push" /\ probe.calls[2].data = 20
    /\ probe.calls[3].method = "pop" /\ probe.calls[3].output = Some(10)
    /\ FixedVector_len(probe.vector) = 1
    /\ ~probe.vector.panicked


(***************************************************************************)
(* board_representation.rs: read_fen applied to a FEN string.              *)
(*                                                                         *)
(* The string is a sequence of characters and read_fen is its loop over    *)
(* them.  The strings are well formed: eight rows of eight squares, then   *)
(* the side to move, the castling field, the en passant bit and the two    *)
(* clocks.                                                                 *)
(***************************************************************************)

BLACK_PIECE_TYPES == <<"?", "p", "n", "b", "r", "q", "k">>
WHITE_PIECE_TYPES == <<"?", "P", "N", "B", "R", "Q", "K">>

DigitCharacters == <<"0", "1", "2", "3", "4", "5", "6", "7", "8", "9">>

\* Returns index of a key in an array
find_key_in_array(key, arr) ==
    IF \E i \in 1 .. Len(arr) : arr[i] = key
    THEN Some(SetMin({i \in 1 .. Len(arr) : arr[i] = key}) - 1)
    ELSE None

\* Converts character to number
char_to_num(c) == find_key_in_array(c, DigitCharacters)

\* Collect nums in character iterator to a number; start_index counts from 0
RECURSIVE collect_nums_from(_, _, _)
collect_nums_from(characters, index, output) ==
    IF index + 1 > Len(characters) \/ char_to_num(characters[index + 1]) = None THEN output
    ELSE collect_nums_from(characters, index + 1,
                           output * 10 + Unwrap(char_to_num(characters[index + 1])))
collect_nums(characters, start_index) == collect_nums_from(characters, start_index, 0)

\* variant: the king squares are left as Board::empty made them
set_no_king_bits(current_bit, fen_char, b) == b

\* Sets king bits in the board from the current fen character
set_king_bits(current_bit, fen_char, b) ==
    IF fen_char = WHITE_PIECE_TYPES[KING_ID + 1]
    THEN [b EXCEPT !.white_king_bit = current_bit]
    ELSE IF fen_char = BLACK_PIECE_TYPES[KING_ID + 1]
    THEN [b EXCEPT !.black_king_bit = current_bit]
    ELSE b

\* <<bit, row>> after skipping the given number of squares
RECURSIVE read_fen_traverse(_, _, _)
read_fen_traverse(bit, row, skip_numer) ==
    IF skip_numer = 0 THEN <<bit, row>>
    ELSE IF bit % 8 = 0
    THEN read_fen_traverse((row + 1) * 8 + 7, row + 1, skip_numer - 1)
    ELSE read_fen_traverse(bit - 1, row, skip_numer - 1)

\* the board after a character of the layout field
read_fen_layout(bit, c, b) ==
    IF find_key_in_array(c, BLACK_PIECE_TYPES) # None
    THEN [b EXCEPT
            !.black_board = insert_piece(bit, Unwrap(find_key_in_array(c, BLACK_PIECE_TYPES)), @),
            !.black_material =
                @ + BLACK_PIECE_INFORMATION[Unwrap(find_key_in_array(c, BLACK_PIECE_TYPES)) + 1]
                        .piece_value]
    ELSE IF find_key_in_array(c, WHITE_PIECE_TYPES) # None
    THEN [b EXCEPT
            !.white_board = insert_piece(bit, Unwrap(find_key_in_array(c, WHITE_PIECE_TYPES)), @),
            !.white_material =
                @ + WHITE_PIECE_INFORMATION[Unwrap(find_key_in_array(c, WHITE_PIECE_TYPES)) + 1]
                        .piece_value]
    ELSE b

\* the casts of collect_nums' u32 to u8 and to i16
AsU8(n) == n % 256
AsI16(n) == ((n + 32768) % 65536) - 32768

\* the local variables of read_fen after the character of index i (from 0)
read_fen_character(fen_string, i, c, local) ==
    IF c = "/" THEN local
    ELSE IF c = " "
    THEN [local EXCEPT !.space_counter = @ + 1, !.last_character_space = TRUE]
    ELSE IF local.space_counter = 0
    THEN LET skip_numer == IF char_to_num(c) = None THEN 1 ELSE Unwrap(char_to_num(c))
             traversed == read_fen_traverse(local.bit, local.row, skip_numer)
         IN  [local EXCEPT
                !.board = read_fen_layout(local.bit, c, set_king_bits(local.bit, c, @)),
                !.bit = traversed[1],
                !.row = traversed[2]]
    ELSE IF local.space_counter = 1
    THEN [local EXCEPT !.board.piece_to_move = IF c = "w" THEN "White" ELSE "Black"]
    ELSE IF local.space_counter = 2
    THEN [local EXCEPT
            !.board.castling_availability.w_ks = IF c = "K" THEN TRUE ELSE @,
            !.board.castling_availability.w_qs = IF c = "Q" THEN TRUE ELSE @,
            !.board.castling_availability.b_ks = IF c = "k" THEN TRUE ELSE @,
            !.board.castling_availability.b_qs = IF c = "q" THEN TRUE ELSE @]
    ELSE IF local.space_counter = 3 /\ local.last_character_space
    THEN [local EXCEPT
            !.board.en_passant_target_bit =
                IF char_to_num(c) # None THEN Some(AsU8(collect_nums(fen_string, i))) ELSE @,
            !.last_character_space = FALSE]
    ELSE IF local.last_character_space
    THEN [local EXCEPT
            !.board.halfmove_clock =
                IF local.space_counter = 4 THEN AsI16(collect_nums(fen_string, i)) ELSE @,
            !.board.fullmove_number =
                IF local.space_counter = 5 THEN AsI16(collect_nums(fen_string, i)) ELSE @,
            !.last_character_space = FALSE]
    ELSE local

\* the local variables after the characters of index first to last; the
\* characters of the first half are read before those of the second
RECURSIVE read_fen_characters(_, _, _, _)
RECURSIVE read_fen_rest(_, _, _, _)
read_fen_characters(fen_string, first, last, local) ==
    IF first > last THEN local
    ELSE IF first = last
    THEN read_fen_character(fen_string, first, fen_string[first + 1], local)
    ELSE read_fen_rest(fen_string, (first + last) \div 2 + 1, last,
                       read_fen_characters(fen_string, first, (first + last) \div 2, local))
read_fen_rest(fen_string, first, last, local) ==
    IF local.space_counter >= 0 THEN read_fen_characters(fen_string, first, last, local)
    ELSE local

\* Create a board from a fen string
read_fen_string(fen_string) ==
    read_fen_characters(fen_string, 0, Len(fen_string) - 1,
                        [bit |-> 7, row |-> 0, board |-> Board_empty, space_counter |-> 0,
                         last_character_space |-> FALSE]).board

\* rnbqkbnr/pppppppp/8/8/8/8/PPPPPPPP/RNBQKBNR
LayoutStart ==
    <<"r", "n", "b", "q", "k", "b", "n", "r", "/", "p", "p", "p", "p", "p", "p", "p", "p", "/",
      "8", "/", "8", "/", "8", "/", "8", "/", "P", "P", "P", "P", "P", "P", "P", "P", "/",
      "R", "N", "B", "Q", "K", "B", "N", "R">>
\* k7/8/8/8/8/8/8/8
LayoutLoneKing ==
    <<"k", "7", "/", "8", "/", "8", "/", "8", "/", "8", "/", "8", "/", "8", "/", "8">>
\* 7p/8/8/2B5/8/5P2/8/8
LayoutThreePieces ==
    <<"7", "p", "/", "8", "/", "8", "/", "2", "B", "5", "/", "8", "/", "5", "P", "2", "/",
      "8", "/", "8">>
\* k7/8/8/8/5pP1/8/8/7K
LayoutEnPassant ==
    <<"k", "7", "/", "8", "/", "8", "/", "8", "/", "5", "p", "P", "1", "/", "8", "/", "8", "/",
      "7", "K">>

FenLayouts == {LayoutStart, LayoutLoneKing, LayoutThreePieces, LayoutEnPassant}
FenSides == {<<"w">>, <<"b">>}
FenCastlings == {<<"-">>, <<"K", "Q", "k", "q">>, <<"K", "q">>, <<"H", "A", "h", "a">>}
FenEnPassantBits == {<<"-">>, <<"3", "1">>, <<"3", "3">>}
FenHalfmoveClocks == {<<"0">>, <<"5">>, <<"1", "2">>}
FenFullmoveNumbers == {<<"1">>, <<"2", "0">>}

FenString(layout, side, castling, en_passant_bit, halfmove_clock, fullmove_number) ==
    layout \o <<" ">> \o side \o <<" ">> \o castling \o <<" ">> \o en_passant_bit
           \o <<" ">> \o halfmove_clock \o <<" ">> \o fullmove_number

\* rnbqkbnr/pppppppp/8/8/8/8/PPPPPPPP/RNBQKBNR w KQkq - 0 1
StartFen == FenString(LayoutStart, <<"w">>, <<"K", "Q", "k", "q">>, <<"-">>, <<"0">>, <<"1">>)

ReadFenInit ==
    /\ \E layout \in FenLayouts, side \in FenSides, castling \in FenCastlings,
          en_passant_bit \in FenEnPassantBits, halfmove_clock \in FenHalfmoveClocks,
          fullmove_number \in FenFullmoveNumbers :
           probe = [function |-> "read_fen",
                    fen_string |-> FenString(layout, side, castling, en_passant_bit,
                                             halfmove_clock, fullmove_number),
                    output |-> None]
    /\ board = Board_new
    /\ ply = 0
    /\ pc = "set up"
    /\ turn = NoTurn
    /\ root = Board_new
    /\ dpc = "off"
    /\ depth_limit = 3
    /\ pv_move = None
    /\ stack = <<>>
    /\ ret = None
    /\ expired = FALSE
    /\ searched = <<>>
    /\ result = None

\* main: the board is read from the string and kept
ReadFen ==
    /\ pc = "set up"
    /\ probe' = [probe EXCEPT !.output = Some(read_fen_string(probe.fen_string))]
    /\ board' = read_fen_string(probe.fen_string)
    /\ pc' = "returned"
    /\ UNCHANGED <<ply, gen_vars>>

ReadFenSpec == ReadFenInit /\ [][ReadFen]_vars

\* C29: the board read from the FEN string of the starting position is
\* Board::new() in every field: the piece arrays, the king squares 59 and 3,
\* White to move, no en passant target, the four castling rights, material
\* 39 each and the clocks 0 and 1; and on it every id is valid, the colours
\* are disjoint, the cached king squares are the squares of the kings and
\* the material totals are the sums of the piece values.
C29_StartFenIsBoardNew ==
    (probe.function = "read_fen" /\ probe.fen_string = StartFen /\ probe.output # None) =>
        /\ probe.output = Some(Board_new)
        /\ board.white_board = STARTING_WHITE_BOARD
        /\ board.black_board = STARTING_BLACK_BOARD
        /\ board.white_king_bit = 59
        /\ board.black_king_bit = 3
        /\ board.piece_to_move = "White"
        /\ board.en_passant_target_bit = None
        /\ board.castling_availability = [w_ks |-> TRUE, w_qs |-> TRUE, b_ks |-> TRUE, b_qs |-> TRUE]
        /\ board.white_material = 39
        /\ board.black_material = 39
        /\ board.halfmove_clock = 0
        /\ board.fullmove_number = 1
        /\ WellFormed(board)
        /\ OneKingEach(board)
        /\ MaterialConsistent(board)

\* read_fen has returned the board of the starting position
C29_Witness ==
    /\ probe.function = "read_fen"
    /\ probe.fen_string = StartFen
    /\ probe.output # None
    /\ pc = "returned"
    /\ Cardinality(Occupancy(board.white_board) \cup Occupancy(board.black_board)) = 32

====
